---- MODULE Spec2Model ----
(***************************************************************************)
(* Proteus (DEXPI P&ID) XML -> SVG conversion engine of proteus-svg:       *)
(* the recursive walker process_node, its handlers, the shape catalogue    *)
(* lookup and the transform applicator, over an lxml-like element heap.    *)
(*                                                                         *)
(* Numbers.  Coordinates, radii, line weights and scales are integers.     *)
(* The X,Y of a Position/Reference element (cosine and sine) are kept in   *)
(* units of 1/Den, so (0.6, 0.8) is (600, 800).  The documents of Init     *)
(* keep every product c*x exact in this representation; float rounding is  *)
(* outside the model.  str(float) written back to an attribute and read    *)
(* again with float() is exact in Python, so an attribute is modelled by   *)
(* its numeric value.                                                      *)
(***************************************************************************)
EXTENDS Integers, Sequences, FiniteSets, TLC

VARIABLES tree, ctx, scene, work, status, err, log, copyOf, splices

vars == <<tree, ctx, scene, work, status, err, log, copyOf, splices>>

(***************************************************************************)
(* Fixed tables of the source.                                             *)
(***************************************************************************)
\* COMPLEX_NODES with a kind added whose handler returns an arc.
COMPLEX_NODES_and_TrimmedCurve ==
    {"PlantModel", "Drawing", "Label", "Nozzle", "PipingNetworkSystem", "PipeFlowArrow",
     "PipingNetworkSegment", "PipingComponent", "Equipment", "SignalLine", "ActuatingSystem",
     "ActuatingSystemComponent", "InformationFlow",
     "ProcessInstrumentationFunction", "PipeConnectorSymbol", "TrimmedCurve"}

COMPLEX_NODES ==
    {"PlantModel", "Drawing", "Label", "Nozzle", "PipingNetworkSystem", "PipeFlowArrow",
     "PipingNetworkSegment", "PipingComponent", "Equipment", "SignalLine", "ActuatingSystem",
     "ActuatingSystemComponent", "InformationFlow",
     "ProcessInstrumentationFunction", "PipeConnectorSymbol"}

IgnoredTags ==
    {"Association", "Connection", "PlantModel", "PlantInformation", "PlantStructureItem", "Extent",
     "Presentation", "ActuatingSystem", "ActuatingSystemComponent", "ActuatingFunction",
     "ShapeCatalogue", "Position", "DrawingBorder", "PropertyBreak", "Description",
     "Scale", "PersistentID", "GenericAttributes", "ConnectionPoints", "MinimumDesignPressure",
     "PipeFlowArrow", "SignalLine", "InformationFlow", "MaximumDesignPressure",
     "MaximumDesignTemperature", "MinimumDesignTemperature", "InstrumentLoop",
     "InstrumentationLoopFunction", "NominalDiameter", "CrossPageConnection"}

HandlerTable ==
    [Line |-> "line_handler", CenterLine |-> "centerline_handler",
     PolyLine |-> "polyline_handler", Shape |-> "shape_handler", Text |-> "text_handler",
     Circle |-> "circle_handler", Drawing |-> "drawing_handler",
     TrimmedCurve |-> "trimmed_curve_handler", Equipment |-> "equipment_handler",
     Nozzle |-> "nozzle_handler", PipingComponent |-> "piping_component_handler",
     Label |-> "label_handler",
     ProcessInstrumentationFunction |-> "process_instrumentation_function_handler",
     PipeConnectorSymbol |-> "pipe_connector_symbol_handler",
     PipingNetworkSystem |-> "piping_network_system_handler",
     PipingNetworkSegment |-> "piping_network_segment_handler",
     ProcessInstrument |-> "process_instrument_handler",
     InstrumentComponent |-> "instrument_component_handler",
     Component |-> "component_handler"]

\* The tag each handler gives ensure_type for the node it is called on;
\* trimmed_curve_handler and dummy_handler make no such check.
ExpectedTag ==
    [line_handler |-> "Line", centerline_handler |-> "CenterLine",
     polyline_handler |-> "PolyLine", shape_handler |-> "Shape", text_handler |-> "Text",
     circle_handler |-> "Circle", equipment_handler |-> "Equipment",
     nozzle_handler |-> "Nozzle", drawing_handler |-> "Drawing",
     piping_component_handler |-> "PipingComponent",
     process_instrument_handler |-> "ProcessInstrument",
     instrument_component_handler |-> "InstrumentComponent",
     process_instrumentation_function_handler |-> "ProcessInstrumentationFunction",
     label_handler |-> "Label", pipe_connector_symbol_handler |-> "PipeConnectorSymbol",
     piping_network_system_handler |-> "PipingNetworkSystem",
     piping_network_segment_handler |-> "PipingNetworkSegment",
     component_handler |-> "Component"]

\* resolve_node_handler with the PolyLine branch returning the CenterLine
\* handler.
resolve_node_handler_polyline(node_type) ==
    IF node_type \in IgnoredTags THEN "dummy_handler"
    ELSE IF node_type = "PolyLine" THEN "centerline_handler"
    ELSE IF node_type \in DOMAIN HandlerTable THEN HandlerTable[node_type]
    ELSE "NotImplementedError"

\* The handler for a tag, or the exception resolve_node_handler raises.
resolve_node_handler(node_type) ==
    IF node_type \in IgnoredTags THEN "dummy_handler"
    ELSE IF node_type \in DOMAIN HandlerTable THEN HandlerTable[node_type]
    ELSE "NotImplementedError"

\* resolve_node_handler of src/handlers.py, the copy src/main.py imports:
\* five tags have a handler and every other tag gets dummy_handler.
main_resolve_node_handler(node_type) ==
    IF node_type = "Line" THEN "line_handler"
    ELSE IF node_type = "CenterLine" THEN "centerline_handler"
    ELSE IF node_type = "Text" THEN "text_handler"
    ELSE IF node_type = "Circle" THEN "circle_handler"
    ELSE IF node_type = "Equipment" THEN "equipment_handler"
    ELSE "dummy_handler"

should_process_child_always(node_type) == TRUE

should_process_child(node_type) == node_type \in COMPLEX_NODES

\* Template children that process_shape_reference leaves in the template.
MetadataTags == {"Presentation", "Extent", "Position", "GenericAttributes", "Min", "Max"}

\* Unit.mm and Unit.Metre
UnitValues == {1, 1000}

\* Position/Reference X,Y are held in units of 1/Den (the source holds floats).
Den == 1000

\* 1 / 0.0001, the tolerance of the unit-circle check.
TolInv == 10000

(***************************************************************************)
(* The element heap.  tree[n] is element n: its tag, its attribute dict,   *)
(* the ids of its children in order, and its parent (0: none).             *)
(* 0 stands for Python's None wherever an element is expected.             *)
(***************************************************************************)
NoAttr == [a \in {} |-> 0]

Has(attrib, k) == k \in DOMAIN attrib

Put(f, k, v) == [a \in DOMAIN f \cup {k} |-> IF a = k THEN v ELSE f[a]]

Elem(tag, attrib, kids) == [tag |-> tag, attrib |-> attrib, kids |-> kids]

RECURSIVE PathSeq(_), KidPaths(_, _)
\* The positions of the elements of the nested literal lit (child indices
\* from the root down), in document order.
PathSeq(lit) == <<<<>>>> \o KidPaths(lit, 1)

KidPaths(lit, i) ==
    IF i > Len(lit.kids) THEN <<>>
    ELSE LET sub == PathSeq(lit.kids[i])
         IN [j \in 1..Len(sub) |-> <<i>> \o sub[j]] \o KidPaths(lit, i + 1)

RECURSIVE AtPath(_, _)
AtPath(lit, p) == IF p = <<>> THEN lit ELSE AtPath(lit.kids[p[1]], Tail(p))

\* etree parse of the document lit: the heap of its elements, numbered in
\* document order, each with its tag, attributes, children and parent.
AddTree(lit) ==
    LET pre == PathSeq(lit)
        rank(p) == CHOOSE i \in 1..Len(pre) : pre[i] = p
        el(p) == LET e == AtPath(lit, p)
                 IN [tag |-> e.tag, attrib |-> e.attrib,
                     kids |-> [j \in 1..Len(e.kids) |-> rank(p \o <<j>>)],
                     parent |-> IF p = <<>> THEN 0 ELSE rank(SubSeq(p, 1, Len(p) - 1))]
    IN [i \in 1..Len(pre) |-> el(pre[i])]

RECURSIVE PreOrder(_, _), PreOrderKids(_, _, _)
\* The ids of the subtree of n in document order, n first.
PreOrder(heap, n) == <<n>> \o PreOrderKids(heap, heap[n].kids, 1)

PreOrderKids(heap, ks, i) ==
    IF i > Len(ks) THEN <<>>
    ELSE PreOrder(heap, ks[i]) \o PreOrderKids(heap, ks, i + 1)

SeqToSet(s) == {s[i] : i \in 1..Len(s)}

\* Index of the first occurrence of x in s, 0 when absent.
IndexOf(s, x) ==
    IF \E i \in 1..Len(s) : s[i] = x
    THEN CHOOSE i \in 1..Len(s) : s[i] = x /\ \A j \in 1..(i - 1) : s[j] # x
    ELSE 0

\* Element.findall(tag): the children with that tag, in order.
findall(heap, n, tag) == SelectSeq(heap[n].kids, LAMBDA k : heap[k].tag = tag)

\* Element.find(tag): the first child with that tag, or None.
find(heap, n, tag) ==
    LET fs == findall(heap, n, tag) IN IF fs = <<>> THEN 0 ELSE fs[1]

RemoveAt(s, i) == SubSeq(s, 1, i - 1) \o SubSeq(s, i + 1, Len(s))

InsertAt(s, idx, x) ==
    LET k == IF idx > Len(s) THEN Len(s) ELSE idx
    IN SubSeq(s, 1, k) \o <<x>> \o SubSeq(s, k + 1, Len(s))

\* lxml's node.insert(idx, item): item leaves its present parent and becomes
\* the child at (0-based) position idx of node, or the last one.
insert(heap, node, idx, item) ==
    LET old == heap[item].parent
        h1 == IF old = 0 THEN heap
              ELSE [heap EXCEPT ![old].kids = RemoveAt(@, IndexOf(@, item))]
    IN [h1 EXCEPT ![node].kids = InsertAt(@, idx, item), ![item].parent = node]

\* copy.deepcopy(element): the subtree of src again, at fresh ids, parentless.
deepcopy(heap, src) ==
    LET pre == PreOrder(heap, src)
        base == Len(heap)
        new(o) == base + IndexOf(pre, o)
        copy(i) == [tag |-> heap[pre[i]].tag,
                    attrib |-> heap[pre[i]].attrib,
                    kids |-> [j \in 1..Len(heap[pre[i]].kids) |-> new(heap[pre[i]].kids[j])],
                    parent |-> IF i = 1 THEN 0 ELSE new(heap[pre[i]].parent)]
    IN heap \o [i \in 1..Len(pre) |-> copy(i)]

\* The lookup returns the catalogue entry itself: the aliasing deepcopy prevents.
get_from_shape_catalog_alias(heap, shape_catalog, node_type, component_name) ==
    IF shape_catalog = 0 THEN [tree |-> heap, ref |-> 0, of |-> 0]
    ELSE LET ds == Tail(PreOrder(heap, shape_catalog))
             ms == SelectSeq(ds, LAMBDA d : /\ heap[d].tag = node_type
                                            /\ Has(heap[d].attrib, "ComponentName")
                                            /\ heap[d].attrib.ComponentName = component_name)
         IN IF ms = <<>> THEN [tree |-> heap, ref |-> 0, of |-> 0]
            ELSE [tree |-> heap, ref |-> ms[1], of |-> ms[1]]

\* Context.get_from_shape_catalog: a deep copy of the first descendant of the
\* catalogue with the tag and the ComponentName, or None.  ref is the copy,
\* of the catalogue element it copies.
get_from_shape_catalog(heap, shape_catalog, node_type, component_name) ==
    IF shape_catalog = 0 THEN [tree |-> heap, ref |-> 0, of |-> 0]
    ELSE LET ds == Tail(PreOrder(heap, shape_catalog))
             ms == SelectSeq(ds, LAMBDA d : /\ heap[d].tag = node_type
                                            /\ Has(heap[d].attrib, "ComponentName")
                                            /\ heap[d].attrib.ComponentName = component_name)
         IN IF ms = <<>> THEN [tree |-> heap, ref |-> 0, of |-> 0]
            ELSE [tree |-> deepcopy(heap, ms[1]), ref |-> Len(heap) + 1, of |-> ms[1]]

(***************************************************************************)
(* Transform applicator (set_scale_angle_pos) and catalogue instancing     *)
(* (process_shape_reference).                                              *)
(***************************************************************************)
Abs(x) == IF x < 0 THEN -x ELSE x

\* numpy's 2x2 matrix times vector.
dot(m, v) == <<m[1][1] * v[1] + m[1][2] * v[2], m[2][1] * v[1] + m[2][2] * v[2]>>

\* not (abs(1 - (x^2 + y^2)) > 0.0001), on a reference held in 1/Den.  A
\* component beyond 2 is off the circle whatever the other one is.
RefOnUnitCircle(ref_t) ==
    /\ Abs(ref_t[1]) <= 2 * Den
    /\ Abs(ref_t[2]) <= 2 * Den
    /\ Abs(Den * Den - (ref_t[1] * ref_t[1] + ref_t[2] * ref_t[2])) <= (Den * Den) \div TolInv

\* The rotation applied to the unscaled point and the scale to the result.
apply_transformation_rotate_first(heap, obj, pos_t, rotation_m, scale_m) ==
    LET point_m == <<heap[obj].attrib.X, heap[obj].attrib.Y>>
        r_cords == dot(scale_m, dot(rotation_m, point_m))
    IN [heap EXCEPT ![obj].attrib = Put(Put(@, "X", pos_t[1] + r_cords[1] \div Den),
                                        "Y", pos_t[2] + r_cords[2] \div Den)]

\* The inner function of set_scale_angle_pos: X,Y of obj become
\* pos_t + rotation_m . (scale_m . (X, Y)); rotation_m is held in 1/Den.
apply_transformation_to_coordinates_2d(heap, obj, pos_t, rotation_m, scale_m) ==
    LET point_m == <<heap[obj].attrib.X, heap[obj].attrib.Y>>
        new_coords == dot(scale_m, point_m)
        r_cords == dot(rotation_m, new_coords)
    IN [heap EXCEPT ![obj].attrib = Put(Put(@, "X", pos_t[1] + r_cords[1] \div Den),
                                        "Y", pos_t[2] + r_cords[2] \div Den)]

HasXY(heap, obj) == Has(heap[obj].attrib, "X") /\ Has(heap[obj].attrib, "Y")

RECURSIVE TransformCoordinates(_, _, _, _, _, _)
\* for coordinate in item.findall('Coordinate'): apply_transformation...
TransformCoordinates(heap, cs, i, pos_t, rotation_m, scale_m) ==
    IF i > Len(cs) THEN [err |-> "", tree |-> heap]
    ELSE IF ~HasXY(heap, cs[i]) THEN [err |-> "KeyError", tree |-> heap]
    ELSE TransformCoordinates(
             apply_transformation_to_coordinates_2d(heap, cs[i], pos_t, rotation_m, scale_m),
             cs, i + 1, pos_t, rotation_m, scale_m)

\* One level of set_scale_angle_pos, for element item: its Position/Location,
\* its Coordinate children, its Radius.
TransformElement(heap, item, pos_t, rotation_m, scale_m) ==
    LET p == find(heap, item, "Position")
        loc == IF p = 0 THEN 0 ELSE find(heap, p, "Location")
        radius(r2) ==
            IF r2.err # "" THEN r2
            ELSE IF Has(r2.tree[item].attrib, "Radius")
            THEN [err |-> "",
                  tree |-> [r2.tree EXCEPT ![item].attrib =
                               Put(@, "Radius", @.Radius * scale_m[1][1])]]
            ELSE r2
        coordinates(h1) ==
            radius(TransformCoordinates(h1, findall(h1, item, "Coordinate"), 1,
                                        pos_t, rotation_m, scale_m))
    IN IF p # 0 /\ loc = 0 THEN [err |-> "AttributeError", tree |-> heap]
       ELSE IF p # 0 /\ ~HasXY(heap, loc) THEN [err |-> "KeyError", tree |-> heap]
       ELSE coordinates(IF p = 0 THEN heap
                        ELSE apply_transformation_to_coordinates_2d(heap, loc, pos_t,
                                                                    rotation_m, scale_m))

RECURSIVE TransformSubtree(_, _, _, _, _, _)
\* The recursion of set_scale_angle_pos over the subtree, in document order;
\* the first failure ends it.
TransformSubtree(heap, pre, i, pos_t, rotation_m, scale_m) ==
    IF i > Len(pre) THEN [err |-> "", tree |-> heap]
    ELSE LET rest(r) ==
                 IF r.err # "" THEN r
                 ELSE TransformSubtree(r.tree, pre, i + 1, pos_t, rotation_m, scale_m)
         IN rest(TransformElement(heap, pre[i], pos_t, rotation_m, scale_m))

\* set_scale_angle_pos without its recursion into the children of item.
set_scale_angle_pos_flat(heap, item, pos_t, ref_t, scale_t) ==
    LET scale_m == <<<<scale_t[1], 0>>, <<0, scale_t[2]>>>>
        rotation_m == <<<<ref_t[1], -ref_t[2]>>, <<ref_t[2], ref_t[1]>>>>
    IN IF ~RefOnUnitCircle(ref_t) THEN [err |-> "AssertionError", tree |-> heap]
       ELSE TransformElement(heap, item, pos_t, rotation_m, scale_m)

\* set_scale_angle_pos(item, pos_t, ref_t, scale_t); ref_t is held in 1/Den.
\* The unit-circle check is made again at every level of the recursion, with
\* the same ref_t, so it decides at the first.
set_scale_angle_pos(heap, item, pos_t, ref_t, scale_t) ==
    LET scale_m == <<<<scale_t[1], 0>>, <<0, scale_t[2]>>>>
        rotation_m == <<<<ref_t[1], -ref_t[2]>>, <<ref_t[2], ref_t[1]>>>>
    IN IF ~RefOnUnitCircle(ref_t) THEN [err |-> "AssertionError", tree |-> heap]
       ELSE TransformSubtree(heap, PreOrder(heap, item), 1, pos_t, rotation_m, scale_m)

\* A list iterated by index while the loop body removes the current element:
\* the element after each removed one is passed over.
iter_children_by_index(heap, el) ==
    LET ks == heap[el].kids
        moved(i) == heap[ks[i]].tag \notin MetadataTags
        \* position i is visited iff the position before it was not a visited, moved one
        Visited[i \in 0..Len(ks)] ==
            IF i = 0 THEN FALSE
            ELSE IF i = 1 THEN TRUE
            ELSE ~(Visited[i - 1] /\ moved(i - 1))
    IN SelectSeq(ks, LAMBDA k : Visited[IndexOf(ks, k)])

\* "for item in shape_reference" on an lxml element: the iterator fetches the
\* next sibling before it hands out the current child, so a body that moves
\* the current child away still meets every child.
iter_children(heap, el) == heap[el].kids

\* idx += 1
next_idx(idx) == idx + 1

RECURSIVE SpliceLoop(_, _, _, _, _, _, _, _, _)
\* The for loop of process_shape_reference over the template's children.
SpliceLoop(heap, node, items, i, idx, pos_t, ref_t, scale_t, done) ==
    IF i > Len(items) THEN [err |-> "", tree |-> heap, items |-> done]
    ELSE IF heap[items[i]].tag \in MetadataTags
    THEN SpliceLoop(heap, node, items, i + 1, idx, pos_t, ref_t, scale_t, done)
    ELSE LET splice(r) ==
                 IF r.err # "" THEN [err |-> r.err, tree |-> r.tree, items |-> done]
                 ELSE SpliceLoop(insert(r.tree, node, idx, items[i]), node, items, i + 1,
                                 next_idx(idx), pos_t, ref_t, scale_t, Append(done, items[i]))
         IN splice(set_scale_angle_pos(heap, items[i], pos_t, ref_t, scale_t))

NoArgs == [pos |-> <<0, 0>>, ref |-> <<0, 0>>, scale |-> <<0, 0, 0>>]

\* process_shape_reference(node, shape_reference, ctx).  items are the
\* children spliced into node, args what set_scale_angle_pos was given.
process_shape_reference(heap, node, shape_reference, units) ==
    LET p == find(heap, node, "Position")
        loc == IF p = 0 THEN 0 ELSE find(heap, p, "Location")
        ref == IF p = 0 THEN 0 ELSE find(heap, p, "Reference")
        sc == find(heap, node, "Scale")
        fail(e) == [err |-> e, tree |-> heap, items |-> <<>>, args |-> NoArgs]
    IN IF shape_reference = 0 THEN fail("")
       ELSE IF p = 0 \/ loc = 0 THEN fail("AttributeError")
       ELSE IF ~HasXY(heap, loc) THEN fail("KeyError")
       ELSE IF ref = 0 THEN fail("AttributeError")
       ELSE IF ~HasXY(heap, ref) THEN fail("KeyError")
       ELSE IF sc # 0 /\ ~(HasXY(heap, sc) /\ Has(heap[sc].attrib, "Z")) THEN fail("KeyError")
       ELSE LET pos_t == <<heap[loc].attrib.X * units, heap[loc].attrib.Y * units>>
                ref_t == <<heap[ref].attrib.X * units, heap[ref].attrib.Y * units>>
                scale_t == IF sc # 0
                           THEN <<heap[sc].attrib.X * units, heap[sc].attrib.Y * units,
                                  heap[sc].attrib.Z * units>>
                           ELSE <<1, 1, 1>>
                result(r) ==
                    [err |-> r.err, tree |-> r.tree, items |-> r.items,
                     args |-> [pos |-> pos_t, ref |-> ref_t, scale |-> scale_t]]
            IN result(SpliceLoop(heap, node, iter_children(heap, shape_reference), 1, 1,
                                 pos_t, ref_t, scale_t, <<>>))

(***************************************************************************)
(* Presentation resolver.  R, G, B are held in units of 1/Den as well.     *)
(* A resolver or handler result is a record with err, "" when it returned  *)
(* and the name of the Python exception when it raised.                    *)
(***************************************************************************)
\* ensure_type(obj, tag): the ValueError it raises, or "".
ensure_type(heap, obj, tag) ==
    IF obj = 0 THEN "ValueError"
    ELSE IF heap[obj].tag # tag THEN "ValueError"
    ELSE ""

HexDigits == <<"0", "1", "2", "3", "4", "5", "6", "7", "8", "9", "A", "B", "C", "D", "E", "F">>

\* '{:02X}'.format(a) for a in 0..255
Hex2(a) == HexDigits[(a \div 16) + 1] \o HexDigits[(a % 16) + 1]

rgb_to_hex_string(red, green, blue) ==
    IF ~(0 <= red /\ red <= 255) THEN [err |-> "ValueError", val |-> ""]
    ELSE IF ~(0 <= green /\ green <= 255) THEN [err |-> "ValueError", val |-> ""]
    ELSE IF ~(0 <= blue /\ blue <= 255) THEN [err |-> "ValueError", val |-> ""]
    ELSE [err |-> "", val |-> "#" \o Hex2(red) \o Hex2(green) \o Hex2(blue)]

\* round(x * 255) of a channel held in 1/Den
Round255(x) == (x * 255 + Den \div 2) \div Den

\* math.floor(x * 255) of a channel held in 1/Den
Floor255(x) == (x * 255) \div Den

\* compute_rgb without its range checks
compute_rgb_unchecked(red, green, blue) ==
    [err |-> "", val |-> <<Floor255(red), Floor255(green), Floor255(blue)>>]

compute_rgb(red, green, blue) ==
    IF ~(0 <= red /\ red <= Den) THEN [err |-> "ValueError", val |-> <<>>]
    ELSE IF ~(0 <= green /\ green <= Den) THEN [err |-> "ValueError", val |-> <<>>]
    ELSE IF ~(0 <= blue /\ blue <= Den) THEN [err |-> "ValueError", val |-> <<>>]
    ELSE [err |-> "", val |-> <<Floor255(red), Floor255(green), Floor255(blue)>>]

fetch_color_from_presentation(heap, pr_obj) ==
    IF ensure_type(heap, pr_obj, "Presentation") # ""
    THEN [err |-> ensure_type(heap, pr_obj, "Presentation"), val |-> ""]
    ELSE LET a == heap[pr_obj].attrib
         IN IF ~(Has(a, "R") /\ Has(a, "G") /\ Has(a, "B")) THEN [err |-> "KeyError", val |-> ""]
            ELSE LET c == compute_rgb(a.R, a.G, a.B)
                 IN IF c.err # "" THEN [err |-> c.err, val |-> ""]
                    ELSE rgb_to_hex_string(c.val[1], c.val[2], c.val[3])

\* str.lower() on the spellings the documents use; any other string is
\* already in lower case.
LowerTable ==
    [Solid |-> "solid", SOLID |-> "solid", Dotted |-> "dotted", Dashed |-> "dashed",
     DASHED |-> "dashed", Comos |-> "comos", AVEVA |-> "aveva"]
    @@ ("Long Dash" :> "long dash") @@ ("Short Dash" :> "short dash")
    @@ ("Long Dash + Short Dash, CenterLine" :> "long dash + short dash, centerline")
    @@ ("Long Dash + Short Dash + Short Dash" :> "long dash + short dash + short dash")
    @@ ("Dash + Short Dash" :> "dash + short dash") @@ ("DOTTED" :> "dotted")
    @@ ("Wavy" :> "wavy")

lower(str) == IF str \in DOMAIN LowerTable THEN LowerTable[str] ELSE str

\* The table keyed by int(LineType): a name or an absent LineType has no
\* integer value.
fetch_line_type_from_presentation_int(heap, pr_obj) ==
    IF ensure_type(heap, pr_obj, "Presentation") # ""
    THEN [err |-> ensure_type(heap, pr_obj, "Presentation"), val |-> <<>>]
    ELSE LET a == heap[pr_obj].attrib
             ok(v) == [err |-> "", val |-> v]
         IN IF ~Has(a, "LineType") THEN [err |-> "TypeError", val |-> <<>>]
            ELSE IF "0" = a.LineType THEN ok(<<>>)
            ELSE IF "1" = a.LineType THEN ok(<<1>>)
            ELSE IF "2" = a.LineType THEN ok(<<3>>)
            ELSE IF "3" = a.LineType THEN ok(<<4, 1>>)
            ELSE IF "4" = a.LineType THEN ok(<<4, 1, 2, 1>>)
            ELSE IF "5" = a.LineType THEN ok(<<2, 1>>)
            ELSE IF "6" = a.LineType THEN ok(<<4, 1, 2, 1, 2, 1>>)
            ELSE IF "7" = a.LineType THEN ok(<<3, 1, 2, 1>>)
            ELSE [err |-> "ValueError", val |-> <<>>]

fetch_line_type_from_presentation(heap, pr_obj) ==
    IF ensure_type(heap, pr_obj, "Presentation") # ""
    THEN [err |-> ensure_type(heap, pr_obj, "Presentation"), val |-> <<>>]
    ELSE LET a == heap[pr_obj].attrib
             line_type == lower(IF Has(a, "LineType") THEN a.LineType ELSE "Solid")
             ok(v) == [err |-> "", val |-> v]
         IN IF "0" = line_type \/ "solid" = line_type THEN ok(<<>>)
            ELSE IF "1" = line_type \/ "dotted" = line_type THEN ok(<<1>>)
            ELSE IF "2" = line_type \/ "dashed" = line_type THEN ok(<<3>>)
            ELSE IF "3" = line_type \/ "long dash" = line_type THEN ok(<<4, 1>>)
            ELSE IF "4" = line_type \/ "long dash + short dash, centerline" = line_type
                 THEN ok(<<4, 1, 2, 1>>)
            ELSE IF "5" = line_type \/ "short dash" = line_type THEN ok(<<2, 1>>)
            ELSE IF "6" = line_type \/ "long dash + short dash + short dash" = line_type
                 THEN ok(<<4, 1, 2, 1, 2, 1>>)
            ELSE IF "7" = line_type \/ "dash + short dash" = line_type THEN ok(<<3, 1, 2, 1>>)
            ELSE [err |-> "ValueError", val |-> <<>>]

\* float(presentation.attrib.get('LineWeight')), the unit scale left out
StrokeWidthUnscaled(heap, pr_obj, units) ==
    IF ~Has(heap[pr_obj].attrib, "LineWeight") THEN [err |-> "TypeError", val |-> 0]
    ELSE [err |-> "", val |-> heap[pr_obj].attrib.LineWeight]

\* float(presentation.attrib.get('LineWeight')) * ctx.units.value
StrokeWidth(heap, pr_obj, units) ==
    IF ~Has(heap[pr_obj].attrib, "LineWeight") THEN [err |-> "TypeError", val |-> 0]
    ELSE [err |-> "", val |-> heap[pr_obj].attrib.LineWeight * units]

(***************************************************************************)
(* Primitive handlers.  A handler result is [err, prim, tree, inst]: prim  *)
(* is the svgwrite object returned (NoPrim for None), tree the element     *)
(* heap it leaves, inst what a catalogue instantiation did (at most one).  *)
(***************************************************************************)
NoPrim == [kind |-> "none"]

Raise(heap, e) == [err |-> e, prim |-> NoPrim, tree |-> heap, inst |-> <<>>]

Return(heap, p) == [err |-> "", prim |-> p, tree |-> heap, inst |-> <<>>]

\* True if node.attrib.get('Filled') else False
is_filled(heap, node) == Has(heap[node].attrib, "Filled") /\ heap[node].attrib.Filled # ""

\* (x * units, y_max - y * units) of an element with X and Y
Flip(heap, obj, c) ==
    <<heap[obj].attrib.X * c.units, c.y_max - heap[obj].attrib.Y * c.units>>

line_handler(heap, node, c) ==
    LET coordinates == findall(heap, node, "Coordinate")
        presentation_obj == find(heap, node, "Presentation")
        stroke_color == fetch_color_from_presentation(heap, presentation_obj)
        stroke_width == StrokeWidth(heap, presentation_obj, c.units)
        line_type == fetch_line_type_from_presentation(heap, presentation_obj)
    IN IF ensure_type(heap, node, "Line") # "" THEN Raise(heap, "ValueError")
       ELSE IF Len(coordinates) # 2 THEN Raise(heap, "AssertionError")
       ELSE IF presentation_obj = 0 THEN Raise(heap, "AssertionError")
       ELSE IF stroke_color.err # "" THEN Raise(heap, stroke_color.err)
       ELSE IF stroke_width.err # "" THEN Raise(heap, stroke_width.err)
       ELSE IF ~(HasXY(heap, coordinates[1]) /\ HasXY(heap, coordinates[2]))
            THEN Raise(heap, "KeyError")
       ELSE IF line_type.err # "" THEN Raise(heap, line_type.err)
       ELSE Return(heap, [kind |-> "line",
                          start |-> Flip(heap, coordinates[1], c),
                          end |-> Flip(heap, coordinates[2], c),
                          stroke |-> stroke_color.val,
                          stroke_width |-> stroke_width.val,
                          dasharray |-> line_type.val])

RECURSIVE PathCommands(_, _, _, _)
\* path.push('M' or 'L', x_, ctx.y_max - y_) for each coordinate
PathCommands(heap, coordinates, i, c) ==
    IF i > Len(coordinates) THEN <<>>
    ELSE <<<<IF i = 1 THEN "M" ELSE "L">> \o Flip(heap, coordinates[i], c)>>
         \o PathCommands(heap, coordinates, i + 1, c)

\* The body shared by centerline_handler, polyline_handler and shape_handler
\* (tag and the closing 'Z' are what differ).  Colour and width come from the
\* element's own Presentation or, without one, from the parent's; the dash
\* pattern is asked of the element's own Presentation in both cases.
PathHandler(heap, node, c, tag, close) ==
    LET own == find(heap, node, "Presentation")
        parent == heap[node].parent
        used == IF own # 0 THEN own
                ELSE IF parent = 0 THEN 0 ELSE find(heap, parent, "Presentation")
        stroke_color == fetch_color_from_presentation(heap, used)
        stroke_width == StrokeWidth(heap, used, c.units)
        coordinates == findall(heap, node, "Coordinate")
        line_type == fetch_line_type_from_presentation(heap, own)
    IN IF ensure_type(heap, node, tag) # "" THEN Raise(heap, "ValueError")
       ELSE IF own = 0 /\ parent = 0 THEN Raise(heap, "AttributeError")
       ELSE IF stroke_color.err # "" THEN Raise(heap, stroke_color.err)
       ELSE IF stroke_width.err # "" THEN Raise(heap, stroke_width.err)
       ELSE IF \E i \in 1..Len(coordinates) : ~HasXY(heap, coordinates[i])
            THEN Raise(heap, "KeyError")
       ELSE IF line_type.err # "" THEN Raise(heap, line_type.err)
       ELSE Return(heap, [kind |-> "path",
                          stroke |-> stroke_color.val,
                          fill |-> IF is_filled(heap, node) THEN stroke_color.val ELSE "none",
                          stroke_width |-> stroke_width.val,
                          commands |-> PathCommands(heap, coordinates, 1, c)
                                       \o (IF close THEN <<<<"Z">>>> ELSE <<>>),
                          dasharray |-> line_type.val])

centerline_handler(heap, node, c) == PathHandler(heap, node, c, "CenterLine", FALSE)

polyline_handler(heap, node, c) == PathHandler(heap, node, c, "PolyLine", FALSE)

\* return path.push('Z'): the closed path is built, and what is returned is
\* the value of svgwrite's Path.push, which extends the command list and
\* returns None.
shape_handler(heap, node, c) ==
    LET pushed(r) == IF r.err # "" THEN r ELSE Return(heap, NoPrim)
    IN pushed(PathHandler(heap, node, c, "Shape", TRUE))

circle_handler(heap, node, c) ==
    LET presentation_obj == find(heap, node, "Presentation")
        stroke_color == fetch_color_from_presentation(heap, presentation_obj)
        stroke_width == StrokeWidth(heap, presentation_obj, c.units)
        p == find(heap, node, "Position")
        coordinates == IF p = 0 THEN 0 ELSE find(heap, p, "Location")
    IN IF ensure_type(heap, node, "Circle") # "" THEN Raise(heap, "ValueError")
       ELSE IF presentation_obj = 0 THEN Raise(heap, "AssertionError")
       ELSE IF stroke_color.err # "" THEN Raise(heap, stroke_color.err)
       ELSE IF stroke_width.err # "" THEN Raise(heap, stroke_width.err)
       ELSE IF ~Has(heap[node].attrib, "Radius") THEN Raise(heap, "TypeError")
       ELSE IF p = 0 \/ coordinates = 0 THEN Raise(heap, "AttributeError")
       ELSE IF ~HasXY(heap, coordinates) THEN Raise(heap, "KeyError")
       ELSE Return(heap, [kind |-> "circle",
                          center |-> Flip(heap, coordinates, c),
                          r |-> heap[node].attrib.Radius * c.units,
                          fill |-> IF is_filled(heap, node) THEN stroke_color.val ELSE "none",
                          stroke |-> stroke_color.val,
                          stroke_width |-> stroke_width.val])

\* extent_handler: the overlay rectangle of an Extent; its corners are not
\* multiplied by the unit scale.
extent_handler(heap, node, c) ==
    LET mn == IF node = 0 THEN 0 ELSE find(heap, node, "Min")
        mx == IF node = 0 THEN 0 ELSE find(heap, node, "Max")
    IN IF ensure_type(heap, node, "Extent") # "" THEN Raise(heap, "ValueError")
       ELSE IF mn = 0 THEN Raise(heap, "AttributeError")
       ELSE IF ~HasXY(heap, mn) THEN Raise(heap, "KeyError")
       ELSE IF mx = 0 THEN Raise(heap, "AttributeError")
       ELSE IF ~HasXY(heap, mx) THEN Raise(heap, "KeyError")
       ELSE LET y_min_f == c.y_max - heap[mn].attrib.Y
                y_max_f == c.y_max - heap[mx].attrib.Y
                rect_width == heap[mx].attrib.X - heap[mn].attrib.X
                rect_height == y_min_f - y_max_f
            IN Return(heap, [kind |-> "rect",
                             insert |-> <<heap[mn].attrib.X, y_min_f - rect_height>>,
                             size |-> <<rect_width, rect_height>>,
                             stroke |-> "red", fill |-> "none"])

\* The line-break sequences of LINEBREAK_PATTERN.  A String attribute is held
\* as its sequence of tokens, each a run of text or one line break.
LineBreaks == {"\r\n", "\r", "\n", "&#xD;&#xA;", "&#xD;", "&#xA;"}

RECURSIVE re_split(_, _, _)
\* re.split(LINEBREAK_PATTERN, string): the lines, each a sequence of tokens;
\* cur is the line being read.
re_split(tokens, i, cur) ==
    IF i > Len(tokens) THEN <<cur>>
    ELSE IF tokens[i] \in LineBreaks THEN <<cur>> \o re_split(tokens, i + 1, <<>>)
    ELSE re_split(tokens, i + 1, Append(cur, tokens[i]))

\* str.startswith / str.endswith on the Justification values of the schema;
\* any other value has neither a known prefix nor a known suffix.
JustificationPrefix ==
    [LeftTop |-> "Left", LeftCenter |-> "Left", LeftBottom |-> "Left",
     CenterTop |-> "Center", CenterCenter |-> "Center", CenterBottom |-> "Center",
     RightTop |-> "Right", RightCenter |-> "Right", RightBottom |-> "Right"]

JustificationSuffix ==
    [LeftTop |-> "Top", LeftCenter |-> "Center", LeftBottom |-> "Bottom",
     CenterTop |-> "Top", CenterCenter |-> "Center", CenterBottom |-> "Bottom",
     RightTop |-> "Top", RightCenter |-> "Center", RightBottom |-> "Bottom"]

text_handler(heap, node, c) ==
    LET a == heap[node].attrib
        text_arr == re_split(a.String, 1, <<>>)
        text_size == a.Height * c.units
        pres == find(heap, node, "Presentation")
        text_color == IF pres # 0 THEN fetch_color_from_presentation(heap, pres)
                      ELSE [err |-> "", val |-> "#000000"]
        text_angle == IF Has(a, "TextAngle") THEN a.TextAngle ELSE 0
        text_justification == IF Has(a, "Justification") /\ a.Justification # ""
                              THEN a.Justification ELSE "LeftBottom"
        known == text_justification \in DOMAIN JustificationPrefix
        svg_jst == CASE JustificationPrefix[text_justification] = "Left" -> "start"
                     [] JustificationPrefix[text_justification] = "Right" -> "end"
                     [] JustificationPrefix[text_justification] = "Center" -> "middle"
        alignment_baseline ==
            CASE JustificationSuffix[text_justification] = "Top" -> "baseline"
              [] JustificationSuffix[text_justification] = "Center" -> "middle"
              [] JustificationSuffix[text_justification] = "Bottom" -> "hanging"
        own_pos == find(heap, node, "Position")
        parent == heap[node].parent
        text_pos == IF own_pos # 0 THEN own_pos
                    ELSE IF parent = 0 THEN 0 ELSE find(heap, parent, "Position")
        loc == IF text_pos = 0 THEN 0 ELSE find(heap, text_pos, "Location")
    IN IF ensure_type(heap, node, "Text") # "" THEN Raise(heap, "ValueError")
       ELSE IF ~(Has(a, "String") /\ a.String # <<>>) THEN Return(heap, NoPrim)
       ELSE IF ~Has(a, "Height") THEN Raise(heap, "TypeError")
       ELSE IF text_color.err # "" THEN Raise(heap, text_color.err)
       ELSE IF ~known THEN Raise(heap, "ValueError")
       ELSE IF text_pos = 0 \/ loc = 0 THEN Raise(heap, "AttributeError")
       ELSE IF ~HasXY(heap, loc) THEN Raise(heap, "KeyError")
       ELSE LET text_pos_x == heap[loc].attrib.X * c.units
                text_pos_y == heap[loc].attrib.Y * c.units
            IN Return(heap, [kind |-> "text",
                             text |-> text_arr[1],
                             x |-> text_pos_x,
                             \* y = ctx.y_max - text_pos_y - text_size / 2, doubled
                             y_doubled |-> 2 * (c.y_max - text_pos_y) - text_size,
                             font_size |-> text_size,
                             font_family |-> IF Has(a, "Font") THEN a.Font ELSE "None",
                             fill |-> text_color.val,
                             text_anchor |-> svg_jst,
                             alignment_baseline |-> alignment_baseline,
                             rotate |-> <<-text_angle, text_pos_x, -(text_pos_y - c.y_max)>>,
                             spans |-> [i \in 1..(Len(text_arr) - 1) |->
                                           [text |-> text_arr[i + 1], x |-> text_pos_x,
                                            dy |-> text_size]]])

\* trimmed_curve_handler.  describe_arc's end points are
\* polar_to_cartesian(x, y_max - y, radius, angle); the arc is kept by its
\* centre, radius and angles, cos and sin are not evaluated.
trimmed_curve_handler(heap, node, c) ==
    LET circle_node == find(heap, node, "Circle")
        pres == find(heap, circle_node, "Presentation")
        p == find(heap, circle_node, "Position")
        loc == IF p = 0 THEN 0 ELSE find(heap, p, "Location")
        stroke_color == fetch_color_from_presentation(heap, pres)
        stroke_width == StrokeWidth(heap, pres, c.units)
        a == heap[node].attrib
    IN IF circle_node = 0 THEN Raise(heap, "NotImplementedError")
       ELSE IF ~Has(heap[circle_node].attrib, "Radius") THEN Raise(heap, "TypeError")
       ELSE IF p = 0 \/ loc = 0 THEN Raise(heap, "AttributeError")
       ELSE IF ~HasXY(heap, loc) THEN Raise(heap, "KeyError")
       ELSE IF stroke_color.err # "" THEN Raise(heap, stroke_color.err)
       ELSE IF stroke_width.err # "" THEN Raise(heap, stroke_width.err)
       ELSE IF ~(Has(a, "StartAngle") /\ Has(a, "EndAngle")) THEN Raise(heap, "KeyError")
       ELSE LET y == heap[loc].attrib.Y * c.units
            IN Return(heap, [kind |-> "arc",
                             center |-> Flip(heap, loc, c),
                             r |-> heap[circle_node].attrib.Radius * c.units,
                             \* describe_arc starts at end_angle and ends at start_angle
                             from_angle |-> a.EndAngle,
                             to_angle |-> a.StartAngle,
                             large_arc_flag |-> IF a.EndAngle - a.StartAngle <= 180
                                                THEN "0" ELSE "1",
                             stroke |-> stroke_color.val,
                             fill |-> "none",
                             stroke_width |-> stroke_width.val,
                             translate |-> <<0, (c.y_max - y) * 2>>,
                             scale |-> <<1, -1>>])

(***************************************************************************)
(* Group handlers.                                                         *)
(***************************************************************************)
PutIfPresent(attribs, key, a, name) == IF Has(a, name) THEN Put(attribs, key, a[name]) ELSE attribs

\* create_group(ctx, node): the group with the attributes copied from node.
\* ' '.join(set([...])) has no fixed order: class is kept as the set of names.
create_group(heap, node) ==
    LET a == heap[node].attrib
        g0 == [x \in {"data-type"} |-> heap[node].tag]
        g1 == PutIfPresent(g0, "id", a, "ID")
        g2 == PutIfPresent(g1, "data-component-class", a, "ComponentClass")
        g3 == PutIfPresent(g2, "data-component-name", a, "ComponentName")
        g4 == PutIfPresent(g3, "data-tag-name", a, "TagName")
        g5 == PutIfPresent(g4, "data-specification", a, "Specification")
    IN [kind |-> "g", attribs |-> g5,
        class |-> {heap[node].tag} \cup (IF Has(a, "ComponentClass") THEN {a.ComponentClass} ELSE {})]

\* node.attrib.get(ATTR_COMP_NAME) put into the f-string of the lookup: an
\* absent attribute reads "None".
CompNameOrNone(heap, node) ==
    IF Has(heap[node].attrib, "ComponentName") THEN heap[node].attrib.ComponentName ELSE "None"

\* shape_reference = ctx.get_from_shape_catalog(node_type, component_name)
\* process_shape_reference(node, shape_reference, ctx)
\* return group
Instantiate(heap, node, c, node_type, component_name, group) ==
    LET result(g, r) ==
            [err |-> r.err,
             prim |-> IF r.err = "" THEN group ELSE NoPrim,
             tree |-> r.tree,
             inst |-> IF g.ref = 0 THEN <<>>
                      ELSE <<[host |-> node, template |-> g.of, copy |-> g.ref,
                              before |-> heap[node].kids, items |-> r.items,
                              args |-> r.args, err |-> r.err]>>]
        splice(g) == result(g, process_shape_reference(g.tree, node, g.ref, c.units))
    IN splice(get_from_shape_catalog(heap, c.shape_catalog, node_type, component_name))

\* get_gen_attr_val(node, _set, attr): found is whether the XPath matched.
get_gen_attr_val(heap, node, set, attr) ==
    LET ds == Tail(PreOrder(heap, node))
        ms == SelectSeq(ds, LAMBDA d :
                  /\ heap[d].tag = "GenericAttribute"
                  /\ Has(heap[d].attrib, "Name") /\ heap[d].attrib.Name = attr
                  /\ heap[heap[d].parent].tag = "GenericAttributes"
                  /\ Has(heap[heap[d].parent].attrib, "Set")
                  /\ heap[heap[d].parent].attrib.Set = set)
    IN IF ms = <<>> THEN [err |-> "", found |-> FALSE, val |-> ""]
       ELSE IF ~Has(heap[ms[1]].attrib, "Value")
            THEN [err |-> "AttributeError", found |-> FALSE, val |-> ""]
       ELSE [err |-> "", found |-> TRUE, val |-> heap[ms[1]].attrib.Value]

\* Context.attributes_to_add_from_origin: the list for Comos, None for any
\* other originating system; origin None has no lower().
attributes_to_add_from_origin(c) ==
    IF c.origin = "None" THEN [err |-> "AttributeError", val |-> <<>>]
    ELSE IF lower(c.origin) = "comos"
    THEN [err |-> "", val |-> <<[set |-> "ComosProperties", values |-> <<"Label", "FullLabel">>]>>]
    ELSE [err |-> "TypeError", val |-> <<>>]

equipment_handler(heap, node, c) ==
    LET eq_group == create_group(heap, node)
        attrs == attributes_to_add_from_origin(c)
        label == get_gen_attr_val(heap, node, "ComosProperties", "Label")
        full == get_gen_attr_val(heap, node, "ComosProperties", "FullLabel")
        descr_obj == find(heap, node, "Description")
        a1 == IF label.found THEN Put(eq_group.attribs, "data-comos-label", label.val)
              ELSE eq_group.attribs
        a2 == IF full.found THEN Put(a1, "data-comos-fulllabel", full.val) ELSE a1
        a3 == IF descr_obj # 0
              THEN Put(a2, "data-description",
                       IF Has(heap[descr_obj].attrib, "text") THEN heap[descr_obj].attrib.text
                       ELSE "None")
              ELSE a2
        group == [eq_group EXCEPT !.attribs = a3]
    IN IF ensure_type(heap, node, "Equipment") # "" THEN Raise(heap, "ValueError")
       ELSE IF attrs.err # "" THEN Raise(heap, attrs.err)
       ELSE IF label.err # "" THEN Raise(heap, label.err)
       ELSE IF full.err # "" THEN Raise(heap, full.err)
       ELSE IF Has(group.attribs, "data-component-name")
            THEN Instantiate(heap, node, c, "Equipment", group.attribs["data-component-name"], group)
       ELSE Return(heap, group)

nozzle_handler(heap, node, c) ==
    LET nozzle_group == create_group(heap, node)
    IN IF ensure_type(heap, node, "Nozzle") # "" THEN Raise(heap, "ValueError")
       ELSE IF ~Has(nozzle_group.attribs, "data-component-name") THEN Raise(heap, "KeyError")
       ELSE Instantiate(heap, node, c, "Nozzle", nozzle_group.attribs["data-component-name"],
                        nozzle_group)

drawing_handler(heap, node, c) ==
    IF ensure_type(heap, node, "Drawing") # "" THEN Raise(heap, "ValueError")
    ELSE Return(heap, create_group(heap, node))

piping_component_handler(heap, node, c) ==
    IF ensure_type(heap, node, "PipingComponent") # "" THEN Raise(heap, "ValueError")
    ELSE Instantiate(heap, node, c, "PipingComponent", CompNameOrNone(heap, node),
                     create_group(heap, node))

process_instrument_handler(heap, node, c) ==
    IF ensure_type(heap, node, "ProcessInstrument") # "" THEN Raise(heap, "ValueError")
    ELSE Instantiate(heap, node, c, "ProcessInstrument", CompNameOrNone(heap, node),
                     create_group(heap, node))

instrument_component_handler(heap, node, c) ==
    IF ensure_type(heap, node, "InstrumentComponent") # "" THEN Raise(heap, "ValueError")
    ELSE Instantiate(heap, node, c, "InstrumentComponent", CompNameOrNone(heap, node),
                     create_group(heap, node))

\* The group is made after the instantiation, from the attributes of node,
\* which the instantiation leaves as they were.
process_instrumentation_function_handler(heap, node, c) ==
    IF ensure_type(heap, node, "ProcessInstrumentationFunction") # ""
    THEN Raise(heap, "ValueError")
    ELSE Instantiate(heap, node, c, "ProcessInstrumentationFunction",
                     CompNameOrNone(heap, node), create_group(heap, node))

\* As process_instrumentation_function_handler.
label_handler(heap, node, c) ==
    IF ensure_type(heap, node, "Label") # "" THEN Raise(heap, "ValueError")
    ELSE Instantiate(heap, node, c, "Label", CompNameOrNone(heap, node),
                     create_group(heap, node))

pipe_connector_symbol_handler(heap, node, c) ==
    LET pipe_conn_group == create_group(heap, node)
        cross_page_conn == find(heap, node, "CrossPageConnection")
        get(name) == IF Has(heap[cross_page_conn].attrib, name)
                     THEN heap[cross_page_conn].attrib[name] ELSE "None"
        group == IF cross_page_conn = 0 THEN pipe_conn_group
                 ELSE [pipe_conn_group EXCEPT !.attribs =
                          Put(Put(@, "data-drawing-name", get("DrawingName")),
                              "data-drawing-link-label", get("LinkLabel"))]
    IN IF ensure_type(heap, node, "PipeConnectorSymbol") # "" THEN Raise(heap, "ValueError")
       ELSE IF Has(heap[node].attrib, "ComponentName")
            THEN Instantiate(heap, node, c, "PipeConnectorSymbol",
                             heap[node].attrib.ComponentName, group)
       ELSE Return(heap, group)

piping_network_system_handler(heap, node, c) ==
    IF ensure_type(heap, node, "PipingNetworkSystem") # "" THEN Raise(heap, "ValueError")
    ELSE Return(heap, create_group(heap, node))

piping_network_segment_handler(heap, node, c) ==
    IF ensure_type(heap, node, "PipingNetworkSegment") # "" THEN Raise(heap, "ValueError")
    ELSE Return(heap, create_group(heap, node))

component_handler(heap, node, c) ==
    IF ensure_type(heap, node, "Component") # "" THEN Raise(heap, "ValueError")
    ELSE Instantiate(heap, node, c, "Component", CompNameOrNone(heap, node),
                     create_group(heap, node))

dummy_handler(heap, node, c) == Return(heap, NoPrim)

\* node_handler(node, model_ctx) for the handler resolve_node_handler named.
CallHandler(h, heap, node, c) ==
    CASE h = "dummy_handler" -> dummy_handler(heap, node, c)
      [] h = "line_handler" -> line_handler(heap, node, c)
      [] h = "centerline_handler" -> centerline_handler(heap, node, c)
      [] h = "polyline_handler" -> polyline_handler(heap, node, c)
      [] h = "shape_handler" -> shape_handler(heap, node, c)
      [] h = "text_handler" -> text_handler(heap, node, c)
      [] h = "circle_handler" -> circle_handler(heap, node, c)
      [] h = "drawing_handler" -> drawing_handler(heap, node, c)
      [] h = "trimmed_curve_handler" -> trimmed_curve_handler(heap, node, c)
      [] h = "equipment_handler" -> equipment_handler(heap, node, c)
      [] h = "nozzle_handler" -> nozzle_handler(heap, node, c)
      [] h = "piping_component_handler" -> piping_component_handler(heap, node, c)
      [] h = "label_handler" -> label_handler(heap, node, c)
      [] h = "process_instrumentation_function_handler" ->
             process_instrumentation_function_handler(heap, node, c)
      [] h = "pipe_connector_symbol_handler" -> pipe_connector_symbol_handler(heap, node, c)
      [] h = "piping_network_system_handler" -> piping_network_system_handler(heap, node, c)
      [] h = "piping_network_segment_handler" -> piping_network_segment_handler(heap, node, c)
      [] h = "process_instrument_handler" -> process_instrument_handler(heap, node, c)
      [] h = "instrument_component_handler" -> instrument_component_handler(heap, node, c)
      [] h = "component_handler" -> component_handler(heap, node, c)

(***************************************************************************)
(* Documents.  A document is written as a nested literal and parsed into   *)
(* the heap by AddTree; element 1 is the PlantModel root.  Template        *)
(* coordinates are multiples of 200 and reference components multiples of  *)
(* 5/Den (or the unit vector), which keeps the products exact.             *)
(***************************************************************************)
\* Most Coordinate children a CenterLine, PolyLine or Shape of a document has.
MaxCoordinates == 2

\* Most native graphic children (after Position, Scale, GenericAttributes) a
\* host element of a document has.
MaxNative == 1

XY(x, y) == [X |-> x, Y |-> y]

Leaf(tag, attrib) == Elem(tag, attrib, <<>>)

PresentationEl(r, g, b, weight, type) ==
    Leaf("Presentation", [R |-> r, G |-> g, B |-> b, LineWeight |-> weight, LineType |-> type])

Black == PresentationEl(0, 0, 0, 1, "0")

Red == PresentationEl(Den, 0, 0, 2, "2")

Blue == PresentationEl(0, 0, Den, 3, "Dotted")

PositionEl(loc, ref) ==
    Elem("Position", NoAttr,
         <<Leaf("Location", XY(loc[1], loc[2])), Leaf("Reference", XY(ref[1], ref[2]))>>)

ExtentEl(mn, mx) ==
    Elem("Extent", NoAttr, <<Leaf("Min", XY(mn[1], mn[2])), Leaf("Max", XY(mx[1], mx[2]))>>)

CircleEl(loc, radius, pres) ==
    Elem("Circle", [Radius |-> radius], <<pres, PositionEl(loc, <<Den, 0>>)>>)

Coordinates(n) == [i \in 1..n |-> Leaf("Coordinate", XY(200 * i, 200 * (i % 2)))]

LineEl(pres) == Elem("Line", NoAttr, <<pres>> \o Coordinates(2))

\* A CenterLine, PolyLine or Shape with n coordinates, with or without a
\* Presentation of its own.
PathEl(tag, own, n) ==
    Elem(tag, NoAttr, (IF own THEN <<Red>> ELSE <<>>) \o Coordinates(n))

TextEl(loc) ==
    Elem("Text", [String |-> <<"P-101", "\n", "pump">>, Height |-> 4, Font |-> "Arial",
                  Justification |-> "CenterCenter"],
         <<Black, PositionEl(loc, <<Den, 0>>)>>)

GenericAttributesEl ==
    Elem("GenericAttributes", [Set |-> "ComosProperties"],
         <<Leaf("GenericAttribute", [Name |-> "Label", Value |-> "P-101"])>>)

TemplateNames == {"circle0", "multi", "meta", "nested"}

\* The children of a catalogue entry.
TemplateKids(t) ==
    CASE t = "circle0" -> <<Black, ExtentEl(<<0, 0>>, <<10, 10>>), CircleEl(<<0, 0>>, 5, Red)>>
      [] t = "multi" -> <<Black, CircleEl(<<200, 400>>, 5, Red), PathEl("PolyLine", TRUE, 2),
                          ExtentEl(<<0, 0>>, <<10, 10>>), LineEl(Blue), GenericAttributesEl,
                          PathEl("Shape", TRUE, 2)>>
      [] t = "meta" -> <<Black, ExtentEl(<<0, 0>>, <<10, 10>>)>>
      [] t = "nested" -> <<Black, CircleEl(<<0, 0>>, 5, Red),
                           Elem("Nozzle", [ComponentName |-> "N1"],
                                <<PositionEl(<<200, 0>>, <<Den, 0>>)>>)>>

NozzleN1 == Elem("Nozzle", [ComponentName |-> "N1"], <<Black, CircleEl(<<0, 200>>, 5, Blue)>>)

\* Position/Reference values: the unit vectors (1,0) and (0,1), (0.6,0.8),
\* (0.6,0.9) off the circle, (1,0.005) off it within the tolerance, and
\* (0.001,0), which is on the circle once multiplied by 1000.
RefSet == {<<Den, 0>>, <<0, Den>>, <<600, 800>>, <<600, 900>>, <<Den, 5>>, <<1, 0>>}

\* No Scale element, or Scale X,Y,Z.
ScaleSet == {<<>>, <<1, 1, 1>>, <<2, 1, 1>>}

\* Where a host is placed: Location with Scale.
PlaceSet ==
    {[loc |-> <<0, 0>>, scale |-> <<>>], [loc |-> <<0, 0>>, scale |-> <<1, 1, 1>>],
     [loc |-> <<100, 200>>, scale |-> <<2, 1, 1>>]}

InstancingKinds ==
    {"Equipment", "Nozzle", "Label", "PipingComponent", "PipeConnectorSymbol",
     "ProcessInstrumentationFunction", "ProcessInstrument", "InstrumentComponent", "Component"}

\* A host element: name "" is an element without a ComponentName.
HostEl(kind, name, loc, ref, scale, native) ==
    Elem(kind,
         IF name = "" THEN [ID |-> "H1"] ELSE [ID |-> "H1", ComponentName |-> name],
         <<PositionEl(loc, ref)>>
         \o (IF scale = <<>> THEN <<>>
             ELSE <<Leaf("Scale", [X |-> scale[1], Y |-> scale[2], Z |-> scale[3]])>>)
         \o <<GenericAttributesEl>>
         \o [i \in 1..native |-> LineEl(Black)])

PlantModelEl(items) ==
    Elem("PlantModel", NoAttr,
         <<Leaf("PlantInformation", [SchemaVersion |-> "4.0.1"]),
           ExtentEl(<<0, 0>>, <<841, 594>>)>> \o items)

CatalogueEl(entries) == Elem("ShapeCatalogue", [Name |-> "Shapes"], entries)

\* One Equipment host over every template, reference, place and number of
\* native children.
EquipmentDocs ==
    {PlantModelEl(<<CatalogueEl(<<NozzleN1, Elem("Equipment", [ComponentName |-> "PUMP01"],
                                                 TemplateKids(t))>>),
                    HostEl("Equipment", "PUMP01", pl.loc, ref, pl.scale, native)>>) :
        t \in TemplateNames, ref \in RefSet, pl \in PlaceSet, native \in 0..MaxNative}

\* One host of every instancing kind, with a name the catalogue holds, with a
\* name it does not hold, and without a name.
KindDocs ==
    {PlantModelEl(<<CatalogueEl(<<Elem(k, [ComponentName |-> "SYM"], TemplateKids("multi"))>>),
                    HostEl(k, name, <<100, 200>>, <<0, Den>>, <<>>, 1)>>) :
        k \in InstancingKinds, name \in {"SYM", "OTHER", ""}}

\* Two Equipment hosts of one catalogue entry, placed differently, and a
\* host of an entry whose child has drawable children of its own.
SharedTemplateDocs ==
    {PlantModelEl(<<CatalogueEl(<<Elem("Equipment", [ComponentName |-> "PUMP01"],
                                       TemplateKids("multi"))>>),
                    HostEl("Equipment", "PUMP01", <<0, 0>>, <<Den, 0>>, <<1, 1, 1>>, 1),
                    HostEl("Equipment", "PUMP01", <<100, 200>>, <<600, 800>>, <<2, 1, 1>>, 0)>>),
     PlantModelEl(<<CatalogueEl(<<Elem("Equipment", [ComponentName |-> "PUMP01"],
                                       <<Black,
                                         Elem("PipingComponent", [ID |-> "PC1"],
                                              <<PositionEl(<<200, 400>>, <<Den, 0>>),
                                                LineEl(Blue),
                                                CircleEl(<<200, 400>>, 5, Red)>>)>>)>>),
                    HostEl("Equipment", "PUMP01", <<100, 200>>, <<600, 800>>, <<2, 1, 1>>, 0)>>)}

\* A catalogue entry that holds an Equipment of its own kind and name, and
\* one host of it.
RecursiveDocs ==
    {PlantModelEl(<<CatalogueEl(<<Elem("Equipment", [ComponentName |-> "LOOP"],
                                       <<Black, CircleEl(<<0, 0>>, 5, Red),
                                         Elem("Equipment", [ComponentName |-> "LOOP"],
                                              <<PositionEl(<<200, 0>>, <<Den, 0>>)>>)>>)>>),
                    HostEl("Equipment", "LOOP", <<100, 200>>, <<Den, 0>>, <<>>, 0)>>)}

\* A piping network whose segment holds a CenterLine, PolyLine or Shape, with
\* and without Presentation elements on the path and on the segment.
PathDocs ==
    {PlantModelEl(<<Elem("PipingNetworkSystem", [ID |-> "PNS1"],
                         <<Elem("PipingNetworkSegment", [ID |-> "SEG1"],
                                (IF segPres THEN <<Blue>> ELSE <<>>)
                                \o <<PathEl(tag, own, n),
                                     Elem("PipeFlowArrow", NoAttr, <<LineEl(Black)>>)>>)>>)>>) :
        tag \in {"CenterLine", "PolyLine", "Shape"}, own \in BOOLEAN, segPres \in BOOLEAN,
        n \in 0..MaxCoordinates}

\* A Presentation with a LineType no table knows, and one with a channel
\* above 1.
UnknownType == PresentationEl(0, 0, 0, 1, "9")

OffColour == PresentationEl(Den + 1, 0, 0, 1, "0")

\* A Line with no, one, two or more Coordinate children, among them the
\* segment (0,0)-(10,5), with and without a Presentation.
LineDocs ==
    {PlantModelEl(<<Elem("Line", NoAttr, pres \o cs)>>) :
        pres \in {<<>>, <<Red>>, <<Blue>>, <<UnknownType>>, <<OffColour>>},
        cs \in {Coordinates(n) : n \in 0..(MaxCoordinates + 1)}
               \cup {<<Leaf("Coordinate", XY(0, 0)), Leaf("Coordinate", XY(10, 5))>>}}

\* Drawing, labels, text, arcs, containers that make no group, an element of
\* an unknown kind, and a document without a catalogue.
OtherDocs ==
    {PlantModelEl(<<Elem("Drawing", [ID |-> "D1"],
                         <<Black, ExtentEl(<<0, 0>>, <<841, 594>>),
                           Elem("Label", [ID |-> "L1"],
                                <<ExtentEl(<<0, 0>>, <<10, 10>>),
                                  Elem("Text", [String |-> <<"A">>, Height |-> 4],
                                       <<ExtentEl(<<0, 0>>, <<10, 10>>),
                                         PositionEl(<<200, 100>>, <<Den, 0>>)>>)>>)>>)>>),
     PlantModelEl(<<Elem("SignalLine", NoAttr,
                         <<PathEl("CenterLine", TRUE, 2),
                           Elem("InformationFlow", NoAttr, <<LineEl(Red)>>)>>),
                    Elem("ActuatingSystem", NoAttr,
                         <<Elem("ActuatingSystemComponent", NoAttr,
                                <<CircleEl(<<200, 200>>, 5, Black)>>)>>),
                    Elem("TrimmedCurve", [StartAngle |-> 0, EndAngle |-> 270],
                         <<CircleEl(<<200, 200>>, 5, Black)>>),
                    TextEl(<<200, 100>>)>>),
     PlantModelEl(<<Elem("Drawing", NoAttr, <<LineEl(Black)>>),
                    Elem("TrimmedCurve", [StartAngle |-> 0, EndAngle |-> 90],
                         <<Leaf("Ellipse", NoAttr)>>)>>),
     PlantModelEl(<<Elem("Drawing", NoAttr, <<LineEl(Black)>>),
                    Elem("Ellipse", NoAttr, <<LineEl(Black)>>),
                    LineEl(Red)>>),
     PlantModelEl(<<Elem("Drawing", NoAttr,
                         <<Elem("Line", NoAttr,
                                <<Black>> \o Coordinates(2) \o <<Leaf("Ellipse", NoAttr)>>)>>)>>),
     PlantModelEl(<<LineEl(Red),
                    Elem("TrimmedCurve", [StartAngle |-> 0, EndAngle |-> 90], <<>>)>>),
     PlantModelEl(<<Elem("Drawing", NoAttr, <<Elem("Text", NoAttr, <<>>)>>),
                    HostEl("Equipment", "PUMP01", <<0, 0>>, <<Den, 0>>, <<>>, 1)>>)}

\* Context.origin: the originating system, "None" for Python's None.
Origins == {"Comos", "AVEVA", "None"}

\* Context.y_max
YMaxValues == {20, 594}

\* The documents converted under every Context.
ContextDocs ==
    OtherDocs
    \cup {PlantModelEl(<<CatalogueEl(<<Elem("Equipment", [ComponentName |-> "PUMP01"],
                                            TemplateKids("circle0"))>>),
                        HostEl("Equipment", "PUMP01", <<100, 200>>, <<Den, 0>>, <<>>, 0)>>)}

\* The conversions: a document with the Context it is converted under.
\* Equipment documents under both units, Line documents under both units and
\* both heights, every document of ContextDocs under every Context, the
\* others under mm, Comos, no debug overlay, A1 height.
Conversions ==
    (EquipmentDocs \X UnitValues \X {"Comos"} \X {FALSE} \X {594})
    \cup ((KindDocs \cup SharedTemplateDocs \cup RecursiveDocs \cup PathDocs) \X {1} \X {"Comos"} \X {FALSE} \X {594})
    \cup (LineDocs \X UnitValues \X {"Comos"} \X {FALSE} \X YMaxValues)
    \cup (ContextDocs \X UnitValues \X Origins \X BOOLEAN \X YMaxValues)

TheDrawing == [prim |-> [kind |-> "drawing"], node |-> 0, kids |-> <<>>]

\* A parsed document, a Context for it, and the top-level call
\* process_node(plant_model, drawing, model_ctx) about to be made.
Init ==
    \E cv \in Conversions :
      \E parsed \in {AddTree(cv[1])} :
        /\ tree = parsed
        /\ ctx = [units |-> cv[2], origin |-> cv[3], debug |-> cv[4], y_max |-> cv[5],
                  shape_catalog |-> find(parsed, 1, "ShapeCatalogue")]
        /\ scene = <<TheDrawing>>
        /\ work = <<[node |-> 1, target |-> 1]>>
        /\ status = "running"
        /\ err = ""
        /\ log = <<>>
        /\ copyOf = [i \in 1..Len(parsed) |-> 0]
        /\ splices = <<>>


(***************************************************************************)
(* The walker.  scene[1] is the container the top-level caller passes      *)
(* (the svgwrite Drawing); scene[p] holds the svgwrite object p, the       *)
(* element it was made for, and the objects added to it, in order.         *)
(* work is the list of process_node calls still to be made, the next one   *)
(* first: the recursion of process_node, flattened.  log records every     *)
(* process_node call: its node, its target, the handler that ran ("" when  *)
(* none was resolved) and the object the handler returned (0: none).       *)
(* copyOf[n] is the catalogue element n was deep-copied from (0: parsed);  *)
(* splices lists the instantiations that found a template.                 *)
(***************************************************************************)
\* target.add(obj) puts obj in front of what the target holds.
add_in_front(sc, target, obj, node) ==
    [Append(sc, [prim |-> obj, node |-> node, kids |-> <<>>])
        EXCEPT ![target].kids = <<Len(sc) + 1>> \o @]

\* target.add(obj): obj becomes the last element of target.
add(sc, target, obj, node) ==
    [Append(sc, [prim |-> obj, node |-> node, kids |-> <<>>])
        EXCEPT ![target].kids = Append(@, Len(sc) + 1)]

\* Every child is handed the caller's target, whatever the handler returned.
child_target_flat(has_result, result, target) == target

\* result if result else target
child_target(has_result, result, target) == IF has_result THEN result ELSE target

\* The depth of recursion the interpreter allows before it raises
\* RecursionError, counted in nested process_node calls.
RecursionLimit == 6

RECURSIVE Depth(_, _)
\* The number of process_node calls on the stack when element n is handled:
\* one for n and one for each element above it.
Depth(heap, n) == IF heap[n].parent = 0 THEN 1 ELSE 1 + Depth(heap, heap[n].parent)

\* process_node(node, target, model_ctx) for the call at the head of wk, up
\* to its recursive calls, which are put in front of the pending ones: the
\* heap, scene and pending calls it leaves, how the conversion stands, the
\* log entry of the call, and the copies and the instantiation it made.
process_node(heap, sc, wk, c) ==
    LET node == Head(wk).node
        target == Head(wk).target
        node_type == heap[node].tag
        deep == Depth(heap, node) > RecursionLimit
        h == resolve_node_handler(node_type)
        outcome(r) ==
            LET has_result == r.err = "" /\ r.prim.kind # "none"
                result == Len(sc) + 1
                s1 == IF has_result THEN add(sc, target, r.prim, node) ELSE sc
                overlay == extent_handler(r.tree, find(r.tree, node, "Extent"), c)
                with_overlay == has_result /\ c.debug
                failure == IF r.err # "" THEN r.err
                           ELSE IF with_overlay THEN overlay.err ELSE ""
                kids == r.tree[node].kids
                calls == IF should_process_child(node_type)
                         THEN [i \in 1..Len(kids) |->
                                  [node |-> kids[i],
                                   target |-> child_target(has_result, result, target)]]
                         ELSE <<>>
                rest == calls \o Tail(wk)
            IN [tree |-> r.tree,
                scene |-> IF with_overlay /\ overlay.err = ""
                          THEN add(s1, target, overlay.prim, node) ELSE s1,
                entry |-> [node |-> node, target |-> target,
                           handler |-> IF deep \/ h = "NotImplementedError" THEN "" ELSE h,
                           result |-> IF has_result THEN result ELSE 0],
                copies |-> [i \in 1..(Len(r.tree) - Len(heap)) |->
                               PreOrder(heap, r.inst[1].template)[i]],
                inst |-> r.inst,
                status |-> IF failure # "" THEN "failed"
                           ELSE IF rest = <<>> THEN "done" ELSE "running",
                err |-> failure,
                work |-> IF failure # "" THEN <<>> ELSE rest]
    IN outcome(IF deep THEN Raise(heap, "RecursionError")
               ELSE IF h = "NotImplementedError" THEN Raise(heap, h)
               ELSE CallHandler(h, heap, node, c))

\* One process_node call of the conversion.
ProcessNode ==
    /\ status = "running"
    /\ work # <<>>
    /\ \E r \in {process_node(tree, scene, work, ctx)} :
          /\ tree' = r.tree
          /\ scene' = r.scene
          /\ log' = Append(log, r.entry)
          /\ copyOf' = copyOf \o r.copies
          /\ splices' = splices \o r.inst
          /\ status' = r.status
          /\ err' = r.err
          /\ work' = r.work
    /\ UNCHANGED ctx

Next == ProcessNode

Spec == Init /\ [][Next]_vars

(***************************************************************************)
(* Two conversions in one process, each by a worker of its own.  tree      *)
(* holds every element of the process: the document with the catalogue     *)
(* first, then the document of each worker.  Each worker has its own       *)
(* Context, scene, pending calls, status and log; the Context of both      *)
(* names the same ShapeCatalogue element.  A step is one process_node call *)
(* of one worker.                                                          *)
(***************************************************************************)
Workers == {1, 2}

\* The elements of heap renumbered to follow k elements already there.
Shift(heap, k) ==
    [i \in 1..Len(heap) |->
        [tag |-> heap[i].tag, attrib |-> heap[i].attrib,
         kids |-> [j \in 1..Len(heap[i].kids) |-> heap[i].kids[j] + k],
         parent |-> IF heap[i].parent = 0 THEN 0 ELSE heap[i].parent + k]]

\* The document whose ShapeCatalogue both workers resolve from.
SharedCatalogue ==
    AddTree(PlantModelEl(<<CatalogueEl(<<NozzleN1,
                                         Elem("Equipment", [ComponentName |-> "PUMP01"],
                                              TemplateKids("nested"))>>)>>))

\* The documents the workers convert: an Equipment of the catalogue in two
\* poses, one whose reference is off the unit circle, and a plain Line.
WorkerDocs ==
    {PlantModelEl(<<HostEl("Equipment", "PUMP01", <<100, 200>>, <<Den, 0>>, <<>>, 0)>>),
     PlantModelEl(<<HostEl("Equipment", "PUMP01", <<0, 0>>, <<0, Den>>, <<2, 1, 1>>, 1)>>),
     PlantModelEl(<<HostEl("Equipment", "PUMP01", <<0, 0>>, <<600, 900>>, <<>>, 0)>>),
     PlantModelEl(<<LineEl(Red)>>)}

\* The Context of worker w: the two differ in the height of the drawing.
WorkerContext(w) ==
    [units |-> 1, origin |-> "Comos", debug |-> FALSE,
     y_max |-> IF w = 1 THEN 594 ELSE 20,
     shape_catalog |-> find(SharedCatalogue, 1, "ShapeCatalogue")]

\* The first process_node call of a conversion of the document at root.
FirstCall(root) == <<[node |-> root, target |-> 1]>>

ConcurrentInit ==
    \E d1 \in WorkerDocs, d2 \in WorkerDocs :
      \E h1 \in {AddTree(d1)}, h2 \in {AddTree(d2)} :
        /\ tree = SharedCatalogue \o Shift(h1, Len(SharedCatalogue))
                                  \o Shift(h2, Len(SharedCatalogue) + Len(h1))
        /\ ctx = [w \in Workers |-> WorkerContext(w)]
        /\ scene = [w \in Workers |-> <<TheDrawing>>]
        /\ work = [w \in Workers |->
                      FirstCall(Len(SharedCatalogue) + (IF w = 1 THEN 0 ELSE Len(h1)) + 1)]
        /\ status = [w \in Workers |-> "running"]
        /\ err = [w \in Workers |-> ""]
        /\ log = [w \in Workers |-> <<>>]
        /\ copyOf = [i \in 1..(Len(SharedCatalogue) + Len(h1) + Len(h2)) |-> 0]
        /\ splices = <<>>

\* One process_node call of worker w.
Convert(w) ==
    /\ status[w] = "running"
    /\ work[w] # <<>>
    /\ \E r \in {process_node(tree, scene[w], work[w], ctx[w])} :
          /\ tree' = r.tree
          /\ scene' = [scene EXCEPT ![w] = r.scene]
          /\ log' = [log EXCEPT ![w] = Append(@, r.entry)]
          /\ copyOf' = copyOf \o r.copies
          /\ splices' = splices \o r.inst
          /\ status' = [status EXCEPT ![w] = r.status]
          /\ err' = [err EXCEPT ![w] = r.err]
          /\ work' = [work EXCEPT ![w] = r.work]
    /\ UNCHANGED ctx

ConcurrentNext == \E w \in Workers : Convert(w)

ConcurrentSpec == ConcurrentInit /\ [][ConcurrentNext]_vars

(***************************************************************************)
(* The presentation resolvers called on their own, as the unit tests call  *)
(* them: one function, one input, called MaxCalls times.  work holds the   *)
(* call, tree the element it is given, log what each call gave.            *)
(***************************************************************************)
MaxCalls == 2

\* R, G, B values in 1/Den: -0.1, 0, 0.001, 0.004, 0.5, 0.999, 1, 1.001, 255
ChannelValues == {-100, 0, 1, 4, 500, 999, Den, Den + 1, 255 * Den}

ByteValues == {-1, 0, 15, 16, 127, 255, 256}

LineTypeValues ==
    {"0", "1", "2", "3", "4", "5", "6", "7", "8", "9", "-1",
     "Solid", "SOLID", "solid", "Dotted", "DOTTED", "dotted", "Dashed", "DASHED", "dashed",
     "Long Dash", "long dash", "Long Dash + Short Dash, CenterLine",
     "long dash + short dash, centerline", "Short Dash", "short dash",
     "Long Dash + Short Dash + Short Dash", "long dash + short dash + short dash",
     "Dash + Short Dash", "dash + short dash", "Wavy"}

\* Elements with any of R, G, B, under the right and a wrong tag.
ColourElements ==
    {Leaf(tag, a) : tag \in {"Presentation", "NotPresentation"},
                    a \in UNION {[names -> ChannelValues] : names \in SUBSET {"R", "G", "B"}}}

\* Elements with and without a LineType, of two colours and weights.
LineTypeElements ==
    {Leaf(tag, a) : tag \in {"Presentation", "NotPresentation"},
                    a \in {[R |-> 0, G |-> 0, B |-> 0, LineWeight |-> 1],
                           [R |-> Den, G |-> 500, B |-> 0, LineWeight |-> 3]}
                          \cup {[R |-> c, G |-> 0, B |-> 0, LineWeight |-> w, LineType |-> t] :
                                    c \in {0, Den}, w \in {1, 3}, t \in LineTypeValues}}

\* The calls: the function, the element it is given (None when there is
\* none) or its integer arguments.
ResolverCalls ==
    {[fn |-> "fetch_color_from_presentation", heap |-> AddTree(e), args |-> <<1>>] :
        e \in ColourElements}
    \cup {[fn |-> f, heap |-> <<>>, args |-> <<0>>] :
            f \in {"fetch_color_from_presentation", "fetch_line_type_from_presentation"}}
    \cup {[fn |-> "fetch_line_type_from_presentation", heap |-> AddTree(e), args |-> <<1>>] :
            e \in LineTypeElements}
    \cup {[fn |-> "rgb_to_hex_string", heap |-> <<>>, args |-> <<r, g, b>>] :
            r \in ByteValues, g \in ByteValues, b \in ByteValues}

ResolverInit ==
    \E call \in ResolverCalls :
        /\ tree = call.heap
        /\ work = <<[fn |-> call.fn, args |-> call.args]>>
        /\ ctx = [units |-> 1, origin |-> "None", debug |-> FALSE, y_max |-> 594,
                  shape_catalog |-> 0]
        /\ scene = <<TheDrawing>>
        /\ status = "running" /\ err = "" /\ log = <<>>
        /\ copyOf = [i \in 1..Len(call.heap) |-> 0] /\ splices = <<>>

\* What one call gave: the exception raised, or the value returned.
Outcome(r) == [fn |-> Head(work).fn, args |-> Head(work).args, err |-> r.err, val |-> r.val]

CallFetchColor ==
    /\ Len(log) < MaxCalls
    /\ Head(work).fn = "fetch_color_from_presentation"
    /\ log' = Append(log, Outcome(fetch_color_from_presentation(tree, Head(work).args[1])))
    /\ UNCHANGED <<tree, ctx, scene, work, status, err, copyOf, splices>>

CallFetchLineType ==
    /\ Len(log) < MaxCalls
    /\ Head(work).fn = "fetch_line_type_from_presentation"
    /\ log' = Append(log, Outcome(fetch_line_type_from_presentation(tree, Head(work).args[1])))
    /\ UNCHANGED <<tree, ctx, scene, work, status, err, copyOf, splices>>

CallRgbToHex ==
    /\ Len(log) < MaxCalls
    /\ Head(work).fn = "rgb_to_hex_string"
    /\ log' = Append(log, Outcome(rgb_to_hex_string(Head(work).args[1], Head(work).args[2],
                                                    Head(work).args[3])))
    /\ UNCHANGED <<tree, ctx, scene, work, status, err, copyOf, splices>>

ResolverNext == CallFetchColor \/ CallFetchLineType \/ CallRgbToHex

ResolverSpec == ResolverInit /\ [][ResolverNext]_vars

(***************************************************************************)
(* Properties of the walker.                                               *)
(***************************************************************************)
\* The process_node call made for element n: its place in log, 0 if none.
CallOf(n) == IF \E i \in 1..Len(log) : log[i].node = n
             THEN CHOOSE i \in 1..Len(log) : log[i].node = n ELSE 0

Handled(n) == CallOf(n) # 0

Descendants(n) == SeqToSet(Tail(PreOrder(tree, n)))

\* C1: the children of a node are dispatched if and only if its tag is in
\* COMPLEX_NODES.  Every call but the top-level one is for a child of an
\* element handled before it whose tag is in COMPLEX_NODES; no descendant of a
\* handled element of any other tag is handled; and when the conversion is
\* done every child of a handled COMPLEX_NODES element has been handled.
C1_ContainerDispatch ==
    /\ \A i \in 1..Len(log) :
           i > 1 =>
               LET parent == tree[log[i].node].parent
               IN /\ parent # 0
                  /\ Handled(parent)
                  /\ CallOf(parent) < i
                  /\ tree[parent].tag \in COMPLEX_NODES
    /\ \A i \in 1..Len(log) :
           tree[log[i].node].tag \notin COMPLEX_NODES =>
               \A d \in Descendants(log[i].node) : ~Handled(d)
    /\ status = "done" =>
           \A i \in 1..Len(log) :
               tree[log[i].node].tag \in COMPLEX_NODES =>
                   \A k \in SeqToSet(tree[log[i].node].kids) : Handled(k)

\* A finished conversion that handled the children of a container and
\* handled a non-container element that has XML children.
C1_Witness ==
    /\ status = "done"
    /\ \E i \in 1..Len(log) :
           /\ tree[log[i].node].tag \notin COMPLEX_NODES
           /\ tree[log[i].node].kids # <<>>
           /\ log[i].handler # "dummy_handler"
    /\ \E i \in 2..Len(log) : tree[log[i].node].kids # <<>> /\ Handled(tree[log[i].node].kids[1])

\* The svgwrite object that holds object r of the scene, 0 if none does.
ContainerOf(r) ==
    IF \E c \in 1..Len(scene) : r \in SeqToSet(scene[c].kids)
    THEN CHOOSE c \in 1..Len(scene) : r \in SeqToSet(scene[c].kids) ELSE 0

RECURSIVE NearestContainer(_)
\* The object produced for the nearest handled ancestor-or-self of n that
\* produced one, the caller's container (1) when there is none.
NearestContainer(n) ==
    IF n = 0 THEN 1
    ELSE IF Handled(n) /\ log[CallOf(n)].result # 0 THEN log[CallOf(n)].result
    ELSE NearestContainer(tree[n].parent)

NonProducingContainers ==
    {"PlantModel", "SignalLine", "PipeFlowArrow", "ActuatingSystem",
     "ActuatingSystemComponent", "InformationFlow"}

\* C2: a child is processed with target = the object produced for its parent
\* if one was produced, otherwise the parent's own target; so the object a
\* child produces is a member of the object of its nearest producing
\* ancestor.  The containers whose handler produces nothing are exactly
\* PlantModel, SignalLine, PipeFlowArrow, ActuatingSystem,
\* ActuatingSystemComponent and InformationFlow; every other container's
\* handler, when it returns, returns a group.
C2_ChildTarget ==
    /\ \A i \in 2..Len(log) :
           LET call == log[CallOf(tree[log[i].node].parent)]
           IN /\ log[i].target = IF call.result # 0 THEN call.result ELSE call.target
              /\ log[i].result # 0 =>
                     /\ ContainerOf(log[i].result) = log[i].target
                     /\ ContainerOf(log[i].result) = NearestContainer(tree[log[i].node].parent)
    /\ {t \in COMPLEX_NODES : resolve_node_handler(t) = "dummy_handler"} = NonProducingContainers
    /\ \A i \in 1..Len(log) :
           LET t == tree[log[i].node].tag
           IN /\ t \in NonProducingContainers => log[i].result = 0
              /\ (t \in COMPLEX_NODES \ NonProducingContainers /\ log[i].result # 0)
                     => scene[log[i].result].prim.kind = "g"

\* A finished conversion in which a primitive sits in the group of its parent
\* and another, the child of a container that produces nothing, sits in the
\* group of its grandparent.
C2_Witness ==
    /\ status = "done"
    /\ \E i \in 2..Len(log) :
           /\ log[i].result # 0
           /\ log[i].target # 1
           /\ scene[log[i].target].node = tree[log[i].node].parent
    /\ \E i \in 2..Len(log) :
           /\ log[i].result # 0
           /\ log[i].target # 1
           /\ tree[tree[log[i].node].parent].tag \in NonProducingContainers
           /\ scene[log[i].target].node = tree[tree[log[i].node].parent].parent

\* Place of element n in the document order of the tree.
DocumentOrder(n) == IndexOf(PreOrder(tree, 1), n)

\* C3: every object a handler returned is in exactly one container, once,
\* the container being the target of the call; and within every container
\* the objects are in the document (pre-order) order of the elements they
\* were made for.
C3_AppendedOnceInOrder ==
    /\ \A i \in 1..Len(log) :
           log[i].result # 0 =>
               /\ Cardinality({ck \in (1..Len(scene)) \X (1..Len(scene)) :
                                  /\ ck[2] <= Len(scene[ck[1]].kids)
                                  /\ scene[ck[1]].kids[ck[2]] = log[i].result}) = 1
               /\ scene[log[i].result].node = log[i].node
               /\ log[i].result \in SeqToSet(scene[log[i].target].kids)
    /\ \A c \in 1..Len(scene) :
           \A a, b \in 1..Len(scene[c].kids) :
               a < b =>
                   /\ DocumentOrder(scene[scene[c].kids[a]].node) # 0
                   /\ DocumentOrder(scene[scene[c].kids[a]].node)
                          <= DocumentOrder(scene[scene[c].kids[b]].node)
                   /\ scene[c].kids[a] < scene[c].kids[b]

\* A finished conversion with a container that holds the objects of three
\* different elements.
C3_Witness ==
    /\ status = "done"
    /\ \E c \in 1..Len(scene) :
           Cardinality({scene[scene[c].kids[k]].node : k \in 1..Len(scene[c].kids)}) >= 3

(***************************************************************************)
(* Properties of catalogue instantiation.                                  *)
(***************************************************************************)
\* The instantiations that found a template and spliced it without failure.
Spliced == {k \in 1..Len(splices) : splices[k].err = ""}

\* C4: for every kind whose handler instantiates, the spliced template
\* children have been dispatched when the conversion is done, and what they
\* produced is inside the host's group.
C4_SplicedChildrenDispatched ==
    status = "done" =>
        \A k \in Spliced :
            \A item \in SeqToSet(splices[k].items) :
                /\ Handled(item)
                /\ log[CallOf(item)].result # 0 =>
                       ContainerOf(log[CallOf(item)].result) = log[CallOf(splices[k].host)].result

NonMetadata(kids) == SelectSeq(kids, LAMBDA k : tree[k].tag \notin MetadataTags)

\* C5: after an instantiation the host's children are its first child, then
\* the copies of the template's non-metadata children, all of them and in
\* template order, then the rest of the host's original children in their
\* order; no copy of a metadata child is among them.
C5_SpliceOrder ==
    \A k \in Spliced :
        LET s == splices[k]
            wanted == NonMetadata(tree[s.template].kids)
            now == tree[s.host].kids
        IN /\ s.before # <<>>
           /\ Len(now) = Len(s.before) + Len(wanted)
           /\ now[1] = s.before[1]
           /\ \A i \in 1..Len(wanted) :
                  /\ copyOf[now[1 + i]] = wanted[i]
                  /\ tree[now[1 + i]].parent = s.host
                  /\ now[1 + i] >= s.copy
           /\ \A i \in 2..Len(s.before) : now[Len(wanted) + i] = s.before[i]
           /\ \A i \in 1..Len(now) :
                  now[i] >= s.copy => tree[now[i]].tag \notin MetadataTags

\* An instantiation of a template with a metadata child between spliced
\* ones, into a host that had three children or more.
C5_Witness ==
    \E k \in Spliced :
        LET tk == tree[splices[k].template].kids
        IN /\ Len(splices[k].before) >= 3
           /\ Len(NonMetadata(tk)) >= 3
           /\ \E i \in 2..(Len(tk) - 1) :
                  /\ tree[tk[i]].tag \in MetadataTags
                  /\ tree[tk[i - 1]].tag \notin MetadataTags
                  /\ tree[tk[i + 1]].tag \notin MetadataTags

CatalogueNodes ==
    IF ctx.shape_catalog = 0 THEN {} ELSE SeqToSet(PreOrder(tree, ctx.shape_catalog))

\* The elements of the subtrees spliced by instantiation k.
InstanceNodes(k) ==
    UNION {SeqToSet(PreOrder(tree, splices[k].items[i])) : i \in 1..Len(splices[k].items)}

InstancesDistinct ==
    /\ \A k \in 1..Len(splices) : InstanceNodes(k) \cap CatalogueNodes = {}
    /\ \A a, b \in 1..Len(splices) :
           a # b => SeqToSet(splices[a].items) \cap SeqToSet(splices[b].items) = {}

\* C6: no step changes an element of the shape catalogue subtree or the
\* attributes of an element spliced earlier, and the elements spliced by
\* different instantiations are distinct from each other and from the
\* catalogue's.
C6_CatalogueIndependent ==
    [][/\ \A n \in CatalogueNodes : tree'[n] = tree[n]
       /\ \A k \in 1..Len(splices) :
              \A n \in InstanceNodes(k) : tree'[n].attrib = tree[n].attrib
       /\ InstancesDistinct']_vars

\* Two hosts instantiated from one template.
C6_Witness ==
    \E a, b \in Spliced :
        /\ a # b
        /\ splices[a].template = splices[b].template
        /\ splices[a].items # <<>>
        /\ splices[b].items # <<>>

\* The points set_scale_angle_pos rewrote in instantiation k: of every
\* element of a spliced subtree copied by k, its Position/Location and its
\* Coordinate children.
CopiedBy(k) ==
    {n \in InstanceNodes(k) :
        /\ n >= splices[k].copy
        /\ n < splices[k].copy + Len(PreOrder(tree, splices[k].template))}

PointsOf(k) ==
    {n \in CopiedBy(k) :
        /\ tree[n].parent \in CopiedBy(k)
        /\ \/ tree[n].tag = "Coordinate"
           \/ /\ tree[n].tag = "Location"
              /\ tree[tree[n].parent].tag = "Position"
              /\ tree[tree[n].parent].parent \in CopiedBy(k)
              /\ find(tree, tree[tree[n].parent].parent, "Position") = tree[n].parent
              /\ find(tree, tree[n].parent, "Location") = n}

\* C7: a point (x, y) of the template is rewritten to
\* (tx + c.sx.x - s.sy.y, ty + s.sx.x + c.sy.y), with (c, s) the reference
\* (held in 1/Den), (sx, sy) the scale and (tx, ty) the translation; under
\* translation (0,0), reference (1,0), scale (1,1,1) every X, Y of the
\* instantiated subtree is the template's.
C7_ScaleRotateTranslate ==
    \A k \in Spliced :
        LET a == splices[k].args
        IN /\ \A n \in PointsOf(k) :
                  LET x == tree[copyOf[n]].attrib.X
                      y == tree[copyOf[n]].attrib.Y
                  IN /\ Den * (tree[n].attrib.X - a.pos[1])
                          = a.ref[1] * a.scale[1] * x - a.ref[2] * a.scale[2] * y
                     /\ Den * (tree[n].attrib.Y - a.pos[2])
                          = a.ref[2] * a.scale[1] * x + a.ref[1] * a.scale[2] * y
           /\ (a.pos = <<0, 0>> /\ a.ref = <<Den, 0>> /\ a.scale = <<1, 1, 1>>) =>
                  \A n \in CopiedBy(k) :
                      HasXY(tree, n) =>
                          /\ tree[n].attrib.X = tree[copyOf[n]].attrib.X
                          /\ tree[n].attrib.Y = tree[copyOf[n]].attrib.Y

\* One conversion with an identity instantiation and an instantiation
\* rotated by (0.6, 0.8), scaled by (2, 1) and translated, both of points
\* away from the origin.
C7_Witness ==
    /\ \E k \in Spliced :
           /\ splices[k].args = [pos |-> <<0, 0>>, ref |-> <<Den, 0>>, scale |-> <<1, 1, 1>>]
           /\ \E n \in PointsOf(k) : tree[n].attrib.X # 0 /\ tree[n].attrib.Y # 0
    /\ \E k \in Spliced :
           /\ splices[k].args = [pos |-> <<100, 200>>, ref |-> <<600, 800>>, scale |-> <<2, 1, 1>>]
           /\ \E n \in PointsOf(k) :
                  tree[copyOf[n]].attrib.X # 0 /\ tree[copyOf[n]].attrib.Y # 0

\* Position/Reference of host as the document gives it, in 1/Den.
DocumentReference(host) ==
    LET r == find(tree, find(tree, host, "Position"), "Reference")
    IN <<tree[r].attrib.X, tree[r].attrib.Y>>

\* C8: an instantiation whose host's Position/Reference (c, s) has
\* |1 - (c^2 + s^2)| <= 1e-4 passes the rotation-reference check, and one
\* whose reference violates it fails with the check's AssertionError, under
\* mm and under Metre (for a template that has a child to splice).
C8_ReferenceCheck ==
    \A k \in 1..Len(splices) :
        NonMetadata(tree[splices[k].template].kids) # <<>> =>
            IF RefOnUnitCircle(DocumentReference(splices[k].host))
            THEN splices[k].err # "AssertionError"
            ELSE splices[k].err = "AssertionError"

\* The Equipment elements of the drawing that name a catalogue entry holding
\* one Circle and nothing else to splice, paired with that Circle.
EquipmentWithCircle ==
    {hc \in (1..Len(tree)) \X CatalogueNodes :
        /\ tree[hc[1]].tag = "Equipment"
        /\ tree[hc[1]].parent = 1
        /\ Has(tree[hc[1]].attrib, "ComponentName")
        /\ tree[hc[2]].tag = "Circle"
        /\ tree[hc[2]].parent # 0
        /\ LET entry == tree[tree[hc[2]].parent]
           IN /\ entry.tag = "Equipment"
              /\ entry.parent = ctx.shape_catalog
              /\ Has(entry.attrib, "ComponentName")
              /\ entry.attrib.ComponentName = tree[hc[1]].attrib.ComponentName
              /\ NonMetadata(entry.kids) = <<hc[2]>>}

\* The template circle's centre taken through the host's Scale, Reference
\* and Location, in output coordinates.
ExpectedCentre(host, circle) ==
    LET p == find(tree, host, "Position")
        l == tree[find(tree, p, "Location")].attrib
        r == DocumentReference(host)
        sc == find(tree, host, "Scale")
        sx == IF sc = 0 THEN 1 ELSE tree[sc].attrib.X
        sy == IF sc = 0 THEN 1 ELSE tree[sc].attrib.Y
        c0 == tree[find(tree, find(tree, circle, "Position"), "Location")].attrib
        x == l.X + (r[1] * sx * c0.X - r[2] * sy * c0.Y) \div Den
        y == l.Y + (r[2] * sx * c0.X + r[1] * sy * c0.Y) \div Den
    IN <<x * ctx.units, ctx.y_max - y * ctx.units>>

\* C9: an Equipment with ComponentName N, with a reference on the unit
\* circle, whose catalogue entry N holds one Circle converts (without the
\* debug overlay) to one group holding exactly one circle, centred at the
\* template circle's centre transformed by the equipment's Scale, Reference
\* and Location.
C9_EquipmentCircle ==
    \A hc \in EquipmentWithCircle :
        (~ctx.debug /\ RefOnUnitCircle(DocumentReference(hc[1]))) =>
            /\ status # "failed"
            /\ status = "done" =>
                   /\ Handled(hc[1])
                   /\ log[CallOf(hc[1])].result # 0
                   /\ LET g == scene[log[CallOf(hc[1])].result]
                          circles == SelectSeq(g.kids, LAMBDA o : scene[o].prim.kind = "circle")
                      IN /\ g.prim.kind = "g"
                         /\ Len(circles) = 1
                         /\ scene[circles[1]].prim.center = ExpectedCentre(hc[1], hc[2])

\* C10: a CenterLine, PolyLine or Shape without a Presentation of its own,
\* under a parent that has one, is drawn: its handler returns a path whose
\* stroke colour, stroke width and dash pattern are those of the parent's
\* Presentation.
C10_ParentPresentation ==
    \A i \in 1..Len(log) :
        LET n == log[i].node
            pres == find(tree, tree[n].parent, "Presentation")
        IN (/\ tree[n].tag \in {"CenterLine", "PolyLine", "Shape"}
            /\ find(tree, n, "Presentation") = 0
            /\ tree[n].parent # 0
            /\ pres # 0) =>
               /\ log[i].result # 0
               /\ scene[log[i].result].prim.kind = "path"
               /\ scene[log[i].result].prim.stroke = fetch_color_from_presentation(tree, pres).val
               /\ scene[log[i].result].prim.stroke_width = StrokeWidth(tree, pres, ctx.units).val
               /\ scene[log[i].result].prim.dasharray
                      = fetch_line_type_from_presentation(tree, pres).val

(***************************************************************************)
(* Properties of the primitive handlers.                                   *)
(***************************************************************************)
\* The calls of log made with handler h.
CallsOf(h) == {i \in 1..Len(log) : log[i].handler = h}

\* The dash patterns of the LineType codes and names.
DashOf ==
    [x \in {"0", "solid"} |-> <<>>] @@ [x \in {"1", "dotted"} |-> <<1>>]
    @@ [x \in {"2", "dashed"} |-> <<3>>] @@ [x \in {"3", "long dash"} |-> <<4, 1>>]
    @@ [x \in {"4", "long dash + short dash, centerline"} |-> <<4, 1, 2, 1>>]
    @@ [x \in {"5", "short dash"} |-> <<2, 1>>]
    @@ [x \in {"6", "long dash + short dash + short dash"} |-> <<4, 1, 2, 1, 2, 1>>]
    @@ [x \in {"7", "dash + short dash"} |-> <<3, 1, 2, 1>>]

\* A Presentation element whose colour, width and line type all decode.
Decodes(pres) ==
    /\ fetch_color_from_presentation(tree, pres).err = ""
    /\ Has(tree[pres].attrib, "LineWeight")
    /\ lower(IF Has(tree[pres].attrib, "LineType") THEN tree[pres].attrib.LineType
             ELSE "Solid") \in DOMAIN DashOf

Convention(obj) ==
    <<tree[obj].attrib.X * ctx.units, ctx.y_max - tree[obj].attrib.Y * ctx.units>>

\* The element whose X and Y place a Circle or a Text: the Location of its
\* own Position or, for a Text without one, of its parent's.
LocationOf(n) ==
    LET own == find(tree, n, "Position")
    IN find(tree, IF own # 0 THEN own ELSE find(tree, tree[n].parent, "Position"), "Location")

\* C12: every positioning handler maps a source point (x, y) to
\* (x.unitScale, yMax - y.unitScale), under both unit scales: the ends of a
\* line, the points of a center-line, poly-line or shape, the centre of a
\* circle, the position of a text, and the corners of the overlay rectangle
\* of an Extent (Min to the lower left, Max to the upper right corner).
C12_CoordinateConvention ==
    \A k \in 1..Len(scene) :
        LET p == scene[k].prim
            n == scene[k].node
            cs == findall(tree, n, "Coordinate")
            ext == find(tree, n, "Extent")
        IN /\ p.kind = "line" =>
                 p.start = Convention(cs[1]) /\ p.end = Convention(cs[2])
           /\ p.kind = "path" =>
                 \A i \in 1..Len(cs) : SubSeq(p.commands[i], 2, 3) = Convention(cs[i])
           /\ p.kind = "circle" => p.center = Convention(LocationOf(n))
           /\ p.kind = "text" =>
                 <<2 * p.x, p.y_doubled>> = <<2 * Convention(LocationOf(n))[1],
                                              2 * Convention(LocationOf(n))[2]>>
           /\ p.kind = "rect" =>
                 /\ p.insert = <<Convention(find(tree, ext, "Min"))[1],
                                 Convention(find(tree, ext, "Max"))[2]>>
                 /\ p.insert[1] + p.size[1] = Convention(find(tree, ext, "Max"))[1]
                 /\ p.insert[2] + p.size[2] = Convention(find(tree, ext, "Min"))[2]

(***************************************************************************)
(* Properties of the presentation resolvers, under ResolverSpec.           *)
(***************************************************************************)
\* The element a call was given, and its attributes.
Given == tree[Head(work).args[1]]

ColourCall == Head(work).fn = "fetch_color_from_presentation"

IsPresentation == Head(work).args[1] # 0 /\ Given.tag = "Presentation"

HasChannels == {"R", "G", "B"} \subseteq DOMAIN Given.attrib

InUnitRange(x) == 0 <= x /\ x <= Den

\* The integer k with k <= x * 255 < k + 1, for x held in 1/Den.
Byte(x) == CHOOSE k \in 0..255 : k * Den <= x * 255 /\ x * 255 < (k + 1) * Den

\* C13: for R, G, B in [0,1] the colour decoding returns '#' and, for each
\* channel, the two upper-case hex digits of floor(channel * 255), an integer
\* in 0..255; every repeated call returns the same value; (1,1,1) gives
\* #FFFFFF and (0,0,0) gives #000000.
C13_ColourDecoding ==
    ColourCall /\ IsPresentation /\ HasChannels
    /\ (\A c \in {"R", "G", "B"} : InUnitRange(Given.attrib[c]))
    => LET a == Given.attrib
           rgb == compute_rgb(a.R, a.G, a.B)
       IN /\ rgb.err = ""
          /\ \A c \in 1..3 : rgb.val[c] \in 0..255
          /\ rgb.val = <<Byte(a.R), Byte(a.G), Byte(a.B)>>
          /\ \A i \in 1..Len(log) :
                /\ log[i].err = ""
                /\ log[i].val = "#" \o Hex2(Byte(a.R)) \o Hex2(Byte(a.G)) \o Hex2(Byte(a.B))
                /\ log[i] = log[1]
                /\ a = [R |-> Den, G |-> Den, B |-> Den] => log[i].val = "#FFFFFF"
                /\ a = [R |-> 0, G |-> 0, B |-> 0] => log[i].val = "#000000"
                /\ a = [R |-> 500, G |-> 4, B |-> 999] => log[i].val = "#7F01FE"

\* Grey (0.5, 0.5, 0.5) decoded twice.
C13_Witness ==
    /\ ColourCall /\ IsPresentation
    /\ Given.attrib = [R |-> 500, G |-> 500, B |-> 500]
    /\ Len(log) = MaxCalls /\ log[MaxCalls].val = "#7F7F7F"

\* C14: colour decoding fails on invalid input.  fetch_color_from_presentation
\* raises ValueError when it is given no element or one whose tag is not
\* Presentation, KeyError when any of R, G, B is absent, and ValueError when
\* R, G, B are there and any of them is outside [0,1] (-0.1, or 255);
\* rgb_to_hex_string raises ValueError when any component is outside 0..255.
\* A failed call returns no value.
C14_ColourErrors ==
    \A i \in 1..Len(log) :
        /\ (ColourCall /\ ~IsPresentation) => log[i].err = "ValueError"
        /\ (ColourCall /\ IsPresentation /\ ~HasChannels) => log[i].err = "KeyError"
        /\ (/\ ColourCall /\ IsPresentation /\ HasChannels
            /\ \E c \in {"R", "G", "B"} : ~InUnitRange(Given.attrib[c]))
           => log[i].err = "ValueError"
        /\ (/\ Head(work).fn = "rgb_to_hex_string"
            /\ \E c \in 1..3 : Head(work).args[c] \notin 0..255)
           => log[i].err = "ValueError"
        /\ (Head(work).fn = "rgb_to_hex_string" /\ \A c \in 1..3 : Head(work).args[c] \in 0..255)
           => log[i].err = ""
        /\ (log[i].err # "" /\ Head(work).fn # "fetch_line_type_from_presentation")
           => log[i].val = ""

\* A red channel of 1.001 refused.
C14_Witness ==
    /\ ColourCall /\ IsPresentation
    /\ Given.attrib = [R |-> Den + 1, G |-> 0, B |-> 0]
    /\ Len(log) = 1 /\ log[1].err = "ValueError"

\* The LineType spellings of the table with the code each stands for.
CodeOf ==
    [x \in {"0", "Solid", "SOLID", "solid"} |-> "0"]
    @@ [x \in {"1", "Dotted", "DOTTED", "dotted"} |-> "1"]
    @@ [x \in {"2", "Dashed", "DASHED", "dashed"} |-> "2"]
    @@ [x \in {"3", "Long Dash", "long dash"} |-> "3"]
    @@ [x \in {"4", "Long Dash + Short Dash, CenterLine",
               "long dash + short dash, centerline"} |-> "4"]
    @@ [x \in {"5", "Short Dash", "short dash"} |-> "5"]
    @@ [x \in {"6", "Long Dash + Short Dash + Short Dash",
               "long dash + short dash + short dash"} |-> "6"]
    @@ [x \in {"7", "Dash + Short Dash", "dash + short dash"} |-> "7"]

C16_NoPartialScene ==
    status = "failed" =>
        /\ err # ""
        /\ work = <<>>
        /\ ~ENABLED ProcessNode
        /\ scene = <<TheDrawing>>

\* The sub-elements a handler reads for itself; they are never meant to be
\* dispatched.
PartTags == {"Coordinate", "Min", "Max", "Location", "Reference", "Axis", "GenericAttribute"}

\* The elements of a kind with no registered handler.
Unregistered ==
    {n \in 1..Len(tree) : /\ resolve_node_handler(tree[n].tag) = "NotImplementedError"
                          /\ tree[n].tag \notin PartTags}

\* C17: an element kind with no registered handler gets the same treatment
\* wherever it occurs and in every copy of the dispatch code.  Under a
\* container it is refused with NotImplementedError; so no conversion of a
\* document that holds such an element comes to an end without that
\* failure, and the other copy of resolve_node_handler refuses it too.
C17_UnknownElementPolicy ==
    \A n \in Unregistered :
        /\ status # "done"
        /\ main_resolve_node_handler(tree[n].tag) = "NotImplementedError"

(***************************************************************************)
(* Properties of termination.                                              *)
(***************************************************************************)
\* C18: the conversion terminates for every finite document and catalogue
\* with a number of handler invocations in proportion to the size of the
\* document, also when a template holds an element of an instancing kind
\* whose ComponentName the catalogue resolves again.  The conversion never
\* runs out of recursion depth, and no host instantiates the template an
\* element above it has instantiated (each level of instantiation uses up
\* another catalogue entry, which bounds the invocations by the document).
C18_BoundedInvocations ==
    /\ err # "RecursionError"
    /\ \A j, k \in 1..Len(splices) :
          (j < k /\ splices[j].template = splices[k].template)
          => splices[k].host \notin Descendants(splices[j].host)

\* C20: the center-line, poly-line and shape handlers require at least one
\* Coordinate child: the call for an element with none yields no primitive
\* and fails the conversion.
C20_PathNeedsCoordinate ==
    \A i \in CallsOf("centerline_handler") \cup CallsOf("polyline_handler")
             \cup CallsOf("shape_handler") :
        findall(tree, log[i].node, "Coordinate") = <<>>
        => (log[i].result = 0 /\ status = "failed" /\ i = Len(log))

(***************************************************************************)
(* Properties of two conversions in one process, under ConcurrentSpec.     *)
(***************************************************************************)
\* The root of the document worker w converts.
RootOf(w) == IF log[w] # <<>> THEN log[w][1].node ELSE work[w][1].node

\* The parsed elements of the process: copies are put after them.
ParsedCount == Cardinality({i \in 1..Len(tree) : copyOf[i] = 0})

\* The document of worker w as it was parsed, numbered from 1: its elements
\* with the copies spliced into them left out.
ParsedDoc(w) ==
    LET lo == RootOf(w)
        hi == IF w = 1 THEN RootOf(2) - 1 ELSE ParsedCount
        own(kids) == SelectSeq(kids, LAMBDA k : copyOf[k] = 0)
    IN [i \in 1..(hi - lo + 1) |->
           [tag |-> tree[lo + i - 1].tag, attrib |-> tree[lo + i - 1].attrib,
            kids |-> [j \in 1..Len(own(tree[lo + i - 1].kids)) |->
                         own(tree[lo + i - 1].kids)[j] - (lo - 1)],
            parent |-> IF tree[lo + i - 1].parent = 0 THEN 0
                       ELSE tree[lo + i - 1].parent - (lo - 1)]]

RECURSIVE RunAlone(_, _, _)
\* A conversion n process_node calls on, with nothing else going on.
RunAlone(st, c, n) ==
    IF n = 0 \/ st.status # "running" THEN st
    ELSE RunAlone(process_node(st.tree, st.scene, st.work, c), c, n - 1)

\* Worker w's conversion run alone in a process of its own, as far as w has
\* come.
Alone(w) ==
    RunAlone([tree |-> SharedCatalogue \o Shift(ParsedDoc(w), Len(SharedCatalogue)),
              scene |-> <<TheDrawing>>,
              work |-> FirstCall(Len(SharedCatalogue) + 1),
              status |-> "running", err |-> ""],
             ctx[w], Len(log[w]))

\* A scene without the names of the elements its primitives were made for.
Drawn(sc) == [k \in 1..Len(sc) |-> [prim |-> sc[k].prim, kids |-> sc[k].kids]]

\* C19: two conversions by independent workers, each with its own Context
\* and tree, both resolving templates from the same catalogue root, do not
\* interfere under any interleaving: each worker's scene, status and
\* exception are at every step those of its conversion run alone, and the
\* shared catalogue stays as it was parsed.
C19_NoInterference ==
    /\ SubSeq(tree, 1, Len(SharedCatalogue)) = SharedCatalogue
    /\ \A w \in Workers :
          LET same(alone) ==
                  /\ Drawn(scene[w]) = Drawn(alone.scene)
                  /\ status[w] = alone.status
                  /\ err[w] = alone.err
          IN same(Alone(w))

\* Both workers are done, each has instantiated the Equipment and the Nozzle
\* inside it, and their instantiations alternated.
C19_Witness ==
    /\ \A w \in Workers : status[w] = "done"
    /\ Len(splices) = 4
    /\ splices[1].host < RootOf(2)
    /\ splices[2].host >= RootOf(2) /\ copyOf[splices[2].host] = 0
    /\ copyOf[splices[3].host] # 0
    /\ \A w \in Workers : \E k \in 1..Len(scene[w]) : scene[w][k].prim.kind = "circle"

(***************************************************************************)
(* Properties of the path handlers.                                        *)
(***************************************************************************)
PathCalls ==
    CallsOf("centerline_handler") \cup CallsOf("polyline_handler") \cup CallsOf("shape_handler")

\* The commands of a path through the Coordinate elements cs: a move to the
\* first and a line to each of the others.
MoveAndLines(cs) ==
    [i \in 1..Len(cs) |-> <<IF i = 1 THEN "M" ELSE "L">> \o Convention(cs[i])]

\* C21: for a CenterLine, PolyLine or Shape with at least one Coordinate and
\* a Presentation the handler returns a path whose commands are a move to
\* the first point and a line to each later point in document order; for a
\* Shape the same path with a close-path command last, so that a Shape puts
\* one closed path into the scene.
C21_PathCommands ==
    \A i \in PathCalls :
        LET n == log[i].node
            cs == findall(tree, n, "Coordinate")
            pres == find(tree, n, "Presentation")
        IN (cs # <<>> /\ pres # 0 /\ Decodes(pres)) =>
              /\ log[i].result # 0
              /\ scene[log[i].result].prim.kind = "path"
              /\ scene[log[i].result].prim.commands =
                     MoveAndLines(cs) \o (IF tree[n].tag = "Shape" THEN <<<<"Z">>>> ELSE <<>>)

(***************************************************************************)
(* Properties of the debug overlay.                                        *)
(***************************************************************************)
\* C22: with ctx.debug set, for every node whose handler returns a primitive
\* the walker also attaches one overlay rectangle made from the node's own
\* Extent child when it has one; a node without an Extent child is attached
\* without an overlay and the conversion goes on.
C22_DebugOverlay ==
    ctx.debug =>
        \A i \in 1..Len(log) :
            log[i].result # 0 =>
                LET n == log[i].node
                    overlays == {k \in 1..Len(scene) :
                                    scene[k].node = n /\ scene[k].prim.kind = "rect"}
                IN IF find(tree, n, "Extent") # 0
                   THEN overlays = {log[i].result + 1}
                   ELSE overlays = {} /\ ~(status = "failed" /\ i = Len(log))

(***************************************************************************)
(* Properties of the kinds of failure.                                     *)
(***************************************************************************)
\* C23: a failure is a NotImplementedError if and only if its cause is an
\* element kind without a handler or a TrimmedCurve on an Ellipse; a
\* TrimmedCurve with neither a Circle nor an Ellipse child is a schema
\* mismatch and never fails with NotImplementedError.
C23_NotImplementedSignal ==
    status = "failed" =>
        LET n == log[Len(log)].node
        IN err = "NotImplementedError" <=>
              \/ resolve_node_handler(tree[n].tag) = "NotImplementedError"
              \/ /\ tree[n].tag = "TrimmedCurve"
                 /\ find(tree, n, "Circle") = 0
                 /\ find(tree, n, "Ellipse") # 0

\* C24: a process_node call of a kind that does not instantiate leaves the
\* tree as it was; a call of an instantiating kind adds elements and changes,
\* of the elements that were there, nothing but the children list of the
\* host it is called on, and it does so when no child of that host has been
\* dispatched.
C24_TreeFrame ==
    [][LET host == Head(work).node
       IN /\ tree[host].tag \notin InstancingKinds => tree' = tree
          /\ Len(tree') >= Len(tree)
          /\ \A n \in 1..Len(tree) :
                 tree'[n] # tree[n] =>
                    /\ n = host
                    /\ tree'[n] = [tree[n] EXCEPT !.kids = tree'[n].kids]
                    /\ \A c \in SeqToSet(tree[n].kids) \cup SeqToSet(tree'[n].kids) :
                           ~Handled(c)]_vars

\* A conversion that has instantiated a template into a host that has
\* children of its own, all of them dispatched after the splice.
C24_Witness ==
    /\ status = "done"
    /\ \E k \in Spliced :
           /\ splices[k].items # <<>>
           /\ Len(tree[splices[k].host].kids) > Len(splices[k].items) + 1
           /\ \A c \in SeqToSet(tree[splices[k].host].kids) :
                  CallOf(c) > CallOf(splices[k].host)

\* C25: every object of the scene to which the walker has added another
\* object is a group or the container of the top-level call; a line, path,
\* circle, arc or text has none added, because a handler of a kind whose
\* children are dispatched returns a group or nothing.
C25_OnlyGroupsHoldChildren ==
    /\ \A p \in 2..Len(scene) : scene[p].kids # <<>> => scene[p].prim.kind = "g"
    /\ \A i \in 1..Len(log) :
           (should_process_child(tree[log[i].node].tag) /\ log[i].result # 0) =>
               scene[log[i].result].prim.kind = "g"

\* A finished conversion with a group that holds a primitive of a leaf kind
\* and a group of its own.
C25_Witness ==
    /\ status = "done"
    /\ \E p \in 2..Len(scene) :
           /\ scene[p].prim.kind = "g"
           /\ \E a, b \in SeqToSet(scene[p].kids) :
                  /\ scene[a].prim.kind \in {"line", "path", "circle", "text"}
                  /\ scene[b].prim.kind = "g"
                  /\ scene[b].kids # <<>>

(***************************************************************************)
(* Properties of a conversion made again on the tree the first one left.   *)
(***************************************************************************)
\* process_node(plant_model, drawing, model_ctx) called once more with a
\* fresh container, on the tree as it is now, run to its end.
Again ==
    RunAlone([tree |-> tree, scene |-> <<TheDrawing>>, work |-> FirstCall(1),
              status |-> "running", err |-> ""],
             ctx, 2 * Len(tree))

\* C26: a finished conversion made a second time on the same tree, with the
\* same Context and catalogue, finishes with the same scene, also when the
\* document has elements instantiated from the catalogue.
C26_Repeatable ==
    status = "done" =>
        LET same(again) ==
                /\ again.status = "done"
                /\ Drawn(again.scene) = Drawn(scene)
        IN same(Again)

(***************************************************************************)
(* Properties of the units of instantiated geometry.                       *)
(***************************************************************************)
\* The instantiations of a template with something to splice into a host
\* whose Position/Reference is (1, 0) and which has no Scale.
PlainInstances ==
    {k \in 1..Len(splices) :
        /\ DocumentReference(splices[k].host) = <<Den, 0>>
        /\ find(tree, splices[k].host, "Scale") = 0
        /\ NonMetadata(tree[splices[k].template].kids) # <<>>}

\* C27: under mm and under Metre, a template point q instantiated into a
\* host at Position/Location p, with reference (1, 0) and no Scale, is
\* spliced as the point p + q of the document, so that the handler that
\* draws it applies the unit factor to it once, as to a native point p + q.
C27_UnitsOnce ==
    \A k \in PlainInstances :
        LET p == tree[find(tree, find(tree, splices[k].host, "Position"), "Location")].attrib
        IN /\ splices[k].err = ""
           /\ \A n \in PointsOf(k) :
                  /\ tree[n].attrib.X = p.X + tree[copyOf[n]].attrib.X
                  /\ tree[n].attrib.Y = p.Y + tree[copyOf[n]].attrib.Y

(***************************************************************************)
(* Properties of the recursion of set_scale_angle_pos.                     *)
(***************************************************************************)
\* Every Coordinate and every Location of a Position among the elements
\* instantiation k copied and spliced.
SubtreePoints(k) ==
    {n \in CopiedBy(k) :
        \/ tree[n].tag = "Coordinate"
        \/ tree[n].tag = "Location" /\ tree[tree[n].parent].tag = "Position"}

\* C28: of every template child spliced into a host, every Position/Location
\* and every Coordinate in the child's subtree is the template's point taken
\* through the scale, the rotation and the translation one time, and every
\* Radius in the subtree is the template's multiplied one time by the scale's
\* x-component.
C28_TransformedOnce ==
    \A k \in Spliced :
        LET a == splices[k].args
        IN /\ \A n \in SubtreePoints(k) :
                  LET x == tree[copyOf[n]].attrib.X
                      y == tree[copyOf[n]].attrib.Y
                  IN /\ tree[n].attrib.X
                          = a.pos[1] + (a.ref[1] * a.scale[1] * x - a.ref[2] * a.scale[2] * y) \div Den
                     /\ tree[n].attrib.Y
                          = a.pos[2] + (a.ref[2] * a.scale[1] * x + a.ref[1] * a.scale[2] * y) \div Den
           /\ \A n \in CopiedBy(k) :
                  Has(tree[n].attrib, "Radius") =>
                      tree[n].attrib.Radius = a.scale[1] * tree[copyOf[n]].attrib.Radius

\* An instantiation that rotates, scales by 2 and translates a spliced child
\* which has a Position of its own and, one level down, a Line with
\* Coordinates and a Circle with a Radius and a Position.
C28_Witness ==
    \E k \in Spliced :
        /\ splices[k].args = [pos |-> <<100, 200>>, ref |-> <<600, 800>>, scale |-> <<2, 1, 1>>]
        /\ \E item \in SeqToSet(splices[k].items) :
               /\ find(tree, item, "Position") # 0
               /\ \E n \in SubtreePoints(k) :
                      /\ tree[n].tag = "Coordinate"
                      /\ tree[tree[n].parent].parent = item
                      /\ tree[copyOf[n]].attrib.X # 0
               /\ \E n \in CopiedBy(k) :
                      /\ tree[n].parent = item
                      /\ Has(tree[n].attrib, "Radius")
                      /\ find(tree, n, "Position") # 0

(***************************************************************************)
(* Properties of hosts without a ComponentName.                            *)
(***************************************************************************)
\* The calls on an element of an instantiating kind that has no
\* ComponentName attribute.
NamelessHostCalls ==
    {i \in 1..Len(log) :
        /\ tree[log[i].node].tag \in InstancingKinds
        /\ ~Has(tree[log[i].node].attrib, "ComponentName")}

\* C29: the handler of every instantiating kind, called on a host without a
\* ComponentName, instantiates nothing, leaves the host's children as they
\* are and returns the group.
C29_NamelessHost ==
    \A i \in NamelessHostCalls :
        /\ \A k \in 1..Len(splices) : splices[k].host # log[i].node
        /\ \A c \in SeqToSet(tree[log[i].node].kids) : copyOf[c] = copyOf[log[i].node]
        /\ log[i].result # 0
        /\ scene[log[i].result].prim.kind = "g"

(***************************************************************************)
(* Properties of the dispatch table and the handlers' tag checks.          *)
(***************************************************************************)
\* The calls whose handler checks the tag of its node.
CheckedCalls == {i \in 1..Len(log) : log[i].handler \in DOMAIN ExpectedTag}

\* C30: resolve_node_handler gives every node a handler whose ensure_type
\* expects the node's own tag, so the tag check a handler makes on the node
\* it was dispatched for passes; every tag of the dispatch table is resolved
\* to such a handler.
C30_DispatchMatchesTagCheck ==
    /\ \A i \in CheckedCalls :
           /\ ExpectedTag[log[i].handler] = tree[log[i].node].tag
           /\ ensure_type(tree, log[i].node, ExpectedTag[log[i].handler]) = ""
    /\ \A i \in 1..Len(log) :
           tree[log[i].node].tag \in DOMAIN HandlerTable \ {"TrimmedCurve"} =>
               (i \in CheckedCalls \/ (i = Len(log) /\ err = "RecursionError"))

\* A finished conversion that has called five handlers which check the tag
\* of their node.
C30_Witness ==
    /\ status = "done"
    /\ Cardinality({log[i].handler : i \in CheckedCalls}) >= 5

====
